---------------------------- MODULE Spec2Model ----------------------------
(***************************************************************************)
(* CommitGenie: the change-classification and message-synthesis core       *)
(* (AnalyzerService, HistoryService, AIService, ConfigService,            *)
(* filePatterns).  Strings are TLA+ strings handled character by           *)
(* character; regular expressions are syntax trees interpreted by Ends.    *)
(* Emoji code points are written as gitmoji shortcodes, the module text    *)
(* being ASCII.                                                            *)
(***************************************************************************)
EXTENDS Integers, Sequences, FiniteSets, TLC

(***************************************************************************)
(* JavaScript strings                                                      *)
(***************************************************************************)

Null == "<null>"
Undefined == "<undefined>"

CharAt(s, i) == SubSeq(s, i, i)

CharsOf(s) == {CharAt(s, i) : i \in 1..Len(s)}

UpperAlphabet == "ABCDEFGHIJKLMNOPQRSTUVWXYZ"
LowerAlphabet == "abcdefghijklmnopqrstuvwxyz"
Digits == "0123456789"

UpperChars == CharsOf(UpperAlphabet)
DigitChars == CharsOf(Digits)
WordChars == CharsOf(UpperAlphabet) \cup CharsOf(LowerAlphabet) \cup DigitChars \cup {"_"}
SpaceChars == {" ", "\t", "\n", "\r"}

LowerOfChar ==
  [c \in UpperChars |->
     CharAt(LowerAlphabet, CHOOSE i \in 1..Len(UpperAlphabet) : CharAt(UpperAlphabet, i) = c)]

RECURSIVE toLowerCase(_)
toLowerCase(s) ==
  IF Len(s) = 0 THEN ""
  ELSE IF Len(s) = 1 THEN (IF s \in UpperChars THEN LowerOfChar[s] ELSE s)
  ELSE LET h == Len(s) \div 2
       IN toLowerCase(SubSeq(s, 1, h)) \o toLowerCase(SubSeq(s, h + 1, Len(s)))

startsWith(s, t) == Len(t) <= Len(s) /\ SubSeq(s, 1, Len(t)) = t

endsWith(s, t) == Len(t) <= Len(s) /\ SubSeq(s, Len(s) - Len(t) + 1, Len(s)) = t

\* String.prototype.indexOf, 1-based; 0 when t does not occur in s.
indexOf(s, t) ==
  LET hits == {i \in 1..(Len(s) - Len(t) + 1) : SubSeq(s, i, i + Len(t) - 1) = t}
  IN IF hits = {} THEN 0 ELSE CHOOSE i \in hits : \A j \in hits : i <= j

includes(s, t) == indexOf(s, t) # 0

RECURSIVE trimStart(_)
trimStart(s) == IF s # "" /\ CharAt(s, 1) \in SpaceChars THEN trimStart(SubSeq(s, 2, Len(s))) ELSE s

RECURSIVE trimEnd(_)
trimEnd(s) ==
  IF s # "" /\ CharAt(s, Len(s)) \in SpaceChars THEN trimEnd(SubSeq(s, 1, Len(s) - 1)) ELSE s

trim(s) == trimEnd(trimStart(s))

\* String.prototype.split on a one-character separator.
RECURSIVE split(_, _)
split(s, sep) ==
  LET i == indexOf(s, sep)
  IN IF i = 0 THEN <<s>> ELSE <<SubSeq(s, 1, i - 1)>> \o split(SubSeq(s, i + 1, Len(s)), sep)

\* Array.prototype.join.
RECURSIVE join(_, _)
join(xs, sep) ==
  IF Len(xs) = 0 THEN ""
  ELSE IF Len(xs) = 1 THEN xs[1]
  ELSE xs[1] \o sep \o join(Tail(xs), sep)

\* String.prototype.replace with a string pattern: the first occurrence only.
replace(s, t, r) ==
  LET i == indexOf(s, t)
  IN IF i = 0 THEN s ELSE SubSeq(s, 1, i - 1) \o r \o SubSeq(s, i + Len(t), Len(s))

\* Template-literal rendering of a small non-negative number.
RECURSIVE numToString(_)
numToString(n) ==
  IF n < 10 THEN CharAt(Digits, n + 1) ELSE numToString(n \div 10) \o CharAt(Digits, (n % 10) + 1)

\* The list with its repetitions kept.
uniq_keepAll(xs) == xs

\* [...new Set(xs)]: first occurrences, in order.
RECURSIVE uniq(_)
uniq(xs) ==
  IF Len(xs) = 0 THEN <<>>
  ELSE LET init == uniq(SubSeq(xs, 1, Len(xs) - 1))
           last == xs[Len(xs)]
       IN IF \E i \in DOMAIN init : init[i] = last THEN init ELSE Append(init, last)

(***************************************************************************)
(* Regular expressions (ECMAScript semantics of the constructs the source  *)
(* uses).  Ends(re, s, i, f) is the set of positions at which a match of   *)
(* re that starts at position i of s can end; positions are 1-based and a  *)
(* position names the next character to read.                              *)
(***************************************************************************)

Lit(t) == [k |-> "lit", t |-> t]
Cls(cs) == [k |-> "cls", cs |-> cs]
NotCls(cs) == [k |-> "ncls", cs |-> cs]
Dot == [k |-> "dot"]
Cat(xs) == [k |-> "cat", xs |-> xs]
Alt(xs) == [k |-> "alt", xs |-> xs]
Rep(sub, lo, hi) == [k |-> "rep", sub |-> sub, lo |-> lo, hi |-> hi]
Inf == -1
Star(sub) == Rep(sub, 0, Inf)
Plus(sub) == Rep(sub, 1, Inf)
Opt(sub) == Rep(sub, 0, 1)
Bol == [k |-> "bol"]
Eol == [k |-> "eol"]
Wb == [k |-> "wb"]
Words(ws) == Alt([j \in DOMAIN ws |-> Lit(ws[j])])

S == Cls(SpaceChars)
W == Cls(WordChars)
D == Cls(DigitChars)
Ss == Star(S)
Sp == Plus(S)

\* A RegExp object's pattern and flags: i (ignoreCase), m (multiline).
withFlags(re, fs) == [re |-> re, i |-> "i" \in fs, m |-> "m" \in fs, g |-> "g" \in fs]

RegExp(re, flags) == withFlags(re, CharsOf(flags))

IsWordAt(s, i) == i >= 1 /\ i <= Len(s) /\ CharAt(s, i) \in WordChars

RECURSIVE Ends(_, _, _, _)
RECURSIVE EndsCat(_, _, _, _, _)
RECURSIVE EndsRep(_, _, _, _, _, _)

Ends(re, s, i, f) ==
  CASE re.k = "lit" ->
         LET n == Len(re.t)
             sub == SubSeq(s, i, i + n - 1)
         IN IF i + n - 1 <= Len(s)
               /\ (IF f.i THEN toLowerCase(sub) = toLowerCase(re.t) ELSE sub = re.t)
            THEN {i + n} ELSE {}
    [] re.k = "cls" -> IF i <= Len(s) /\ CharAt(s, i) \in re.cs THEN {i + 1} ELSE {}
    [] re.k = "ncls" -> IF i <= Len(s) /\ CharAt(s, i) \notin re.cs THEN {i + 1} ELSE {}
    [] re.k = "dot" -> IF i <= Len(s) /\ CharAt(s, i) \notin {"\n", "\r"} THEN {i + 1} ELSE {}
    [] re.k = "cat" -> EndsCat(re.xs, 1, s, {i}, f)
    [] re.k = "alt" -> UNION {Ends(re.xs[j], s, i, f) : j \in DOMAIN re.xs}
    [] re.k = "rep" -> EndsRep(re, s, {i}, 0, {}, f)
    [] re.k = "bol" -> IF i = 1 \/ (f.m /\ CharAt(s, i - 1) = "\n") THEN {i} ELSE {}
    [] re.k = "eol" -> IF i = Len(s) + 1 \/ (f.m /\ CharAt(s, i) = "\n") THEN {i} ELSE {}
    [] re.k = "wb" -> IF IsWordAt(s, i - 1) # IsWordAt(s, i) THEN {i} ELSE {}

EndsCat(xs, j, s, P, f) ==
  IF j > Len(xs) \/ P = {} THEN P
  ELSE EndsCat(xs, j + 1, s, UNION {Ends(xs[j], s, p, f) : p \in P}, f)

\* P: the positions reached after exactly n iterations; acc: the ends collected so far.
EndsRep(re, s, P, n, acc, f) ==
  LET acc2 == IF n >= re.lo THEN acc \cup P ELSE acc
  IN IF P = {} \/ (re.hi # Inf /\ n >= re.hi) THEN acc2
     ELSE LET Q == UNION {Ends(re.sub, s, p, f) : p \in P}
          IN EndsRep(re, s, IF n >= re.lo THEN Q \ acc2 ELSE Q, n + 1, acc2, f)

\* The leftmost position of lo..hi at which some match starts, with the greedy end
\* there: <<start, end>>, or <<0, 0>>.  ends[i] is the set of ends of the matches
\* that start at i.
leftmost(lo, hi, ends) ==
  LET starts == {i \in lo..hi : ends[i] # {}}
  IN IF starts = {} THEN <<0, 0>>
     ELSE LET i == CHOOSE i \in starts : \A j \in starts : i <= j
          IN <<i, CHOOSE e \in ends[i] : \A e2 \in ends[i] : e2 <= e>>

\* The leftmost match at or after position from: <<start, end>>, or <<0, 0>>.
execFrom(r, s, from) ==
  leftmost(from, Len(s) + 1, [i \in from..(Len(s) + 1) |-> Ends(r.re, s, i, r)])

\* RegExp.prototype.test of a regular expression whose lastIndex is 0.
test(r, s) == execFrom(r, s, 1)[1] # 0

\* Array.prototype.some over a list of patterns.
someTest(rs, s) == \E j \in DOMAIN rs : test(rs[j], s)

\* (text.match(/.../g) || []).length: the matches, each search resuming where the
\* previous match ended (one character further after an empty match).
RECURSIVE countMatches(_, _, _)
RECURSIVE countAfter(_, _, _)
countAfter(r, s, m) ==
  IF m[1] = 0 THEN 0
  ELSE 1 + countMatches(r, s, IF m[2] = m[1] THEN m[2] + 1 ELSE m[2])

countMatches(r, s, from) == countAfter(r, s, execFrom(r, s, from))

\* TLC evaluates a tabulated function once, for every text of the model.
Tabulate(f) == f @@ <<>>

(***************************************************************************)
(* utils/filePatterns.ts                                                   *)
(***************************************************************************)

filePatterns == <<
  [pattern |-> RegExp(Cat(<<Lit("."), Words(<<"test", "spec">>), Lit("."),
                            Words(<<"ts", "js", "tsx", "jsx">>), Eol>>), ""),
   type |-> "test"],
  [pattern |-> RegExp(Lit("/__tests__/"), ""), type |-> "test"],
  [pattern |-> RegExp(Cat(<<Lit("/test"), Opt(Lit("s")), Lit("/")>>), ""), type |-> "test"],
  [pattern |-> RegExp(Cat(<<Lit("."), Words(<<"md", "mdx">>), Eol>>), ""), type |-> "docs"],
  [pattern |-> RegExp(Cat(<<Lit("/doc"), Opt(Lit("s")), Lit("/")>>), ""), type |-> "docs"],
  [pattern |-> RegExp(Cat(<<Bol, Lit("README")>>), "i"), type |-> "docs"],
  [pattern |-> RegExp(Cat(<<Lit("."),
                            Alt(<<Lit("json"), Cat(<<Lit("y"), Opt(Lit("a")), Lit("ml")>>),
                                  Lit("toml"), Lit("ini"), Lit("config.js")>>), Eol>>), ""),
   type |-> "config"],
  [pattern |-> RegExp(Cat(<<Lit("."), Words(<<"eslintrc", "prettierrc", "babelrc", "gitignore",
                                              "dockerignore">>)>>), ""),
   type |-> "config"],
  [pattern |-> RegExp(Cat(<<Bol, Words(<<"package.json", "tsconfig.json", "webpack.config",
                                         "vite.config">>)>>), ""),
   type |-> "config"],
  [pattern |-> RegExp(Lit("Dockerfile"), ""), type |-> "config"] >>

\* The type of the first pattern that matches, "source" when none does.
RECURSIVE firstFileType(_, _)
firstFileType(filePath, j) ==
  IF j > Len(filePatterns) THEN "source"
  ELSE IF test(filePatterns[j].pattern, filePath) THEN filePatterns[j].type
  ELSE firstFileType(filePath, j + 1)

(***************************************************************************)
(* The texts of the model: the paths git can report as staged, the diff    *)
(* texts, and optional values (undefined / null is None).                  *)
(***************************************************************************)

None == <<>>
Some(v) == <<v>>
Has(o) == o # <<>>
Val(o) == o[1]

\* Paths in the order git status lists them (sorted, each path once).
Paths == <<"API/client.ts", "README.md", "__tests__/unit.ts", "api/index.ts", "doc/guide.ts",
           "docs/guide.ts", "package.json", "src/__tests__/unit.ts", "src/api/users.ts",
           "src/authenticationTokenRefreshSchedulerImplementationFactoryRegistry.ts",
           "src/doc/guide.ts", "src/docs/config.json", "src/docs/guide.ts",
           "src/lint/rules.ts", "src/old.ts", "src/styles/main.css", "src/styles/theme.ts",
           "src/test/unit.ts", "src/tests/notes.md", "src/tests/unit.ts", "src/users.test.ts",
           "test/unit.ts", "tests/unit.ts">>

DiffTexts == {
  "",
  "+  // tidy\n+  ;",
  "+  // use cache for lookups",
  "+  // fix slow path: cache results",
  "+  if (!user) return;",
  "+  // fixed typo, renamed helper",
  "+  // simplify the loop",
  "-  return a + b\n+  return b + a",
  "+  // bump version",
  "+export function newApi() {}",
  "+  // implement retry",
  "+  return a",
  "-export function oldApi() {}",
  "-function foo(a, b) {}",
  "-foo(a) {",
  "-  private bar(x) {",
  "-  name: string;",
  "-  \"version\": \"1.0.0\",",
  "-  name: string;\n-  \"version\": \"1.0.0\",",
  "+// deprecated: removed old flag, removed stub" }

PathFacts ==
  Tabulate([q \in {Paths[j] : j \in DOMAIN Paths} |->
              [fileType |-> firstFileType(q, 1), lower |-> toLowerCase(q), parts |-> split(q, "/")]])

detectFileType(filePath) == PathFacts[filePath].fileType

getFileName(path) ==
  LET parts == PathFacts[path].parts
  IN parts[Len(parts)]

(***************************************************************************)
(* services/analyzerService.ts: constants and pattern lists                *)
(***************************************************************************)

COMMIT_EMOJIS ==
  [feat |-> ":sparkles:", fix |-> ":bug:", docs |-> ":books:", style |-> ":lipstick:",
   refactor |-> ":recycle:", test |-> ":test_tube:", chore |-> ":wrench:", perf |-> ":zap:"]

DEFAULT_BREAKING_KEYWORDS ==
  <<"breaking", "breaking change", "breaking-change", "removed", "deprecated", "incompatible">>

Visibility == Words(<<"public", "private", "protected">>)

BREAKING_PATTERNS == <<
  RegExp(Cat(<<Bol, Lit("-"), Ss, Lit("export"), Sp,
               Words(<<"function", "class", "const", "let", "var", "interface", "type", "enum">>),
               Sp, Plus(W)>>), "gm"),
  RegExp(Cat(<<Bol, Lit("-"), Ss, Opt(Visibility), Ss, Opt(Cat(<<Lit("async"), Sp>>)),
               Lit("function"), Sp, Plus(W), Ss, Lit("("), Plus(NotCls({")"})), Lit(")")>>), "gm"),
  RegExp(Cat(<<Bol, Lit("-"), Ss, Plus(W), Ss, Lit("("), Plus(NotCls({")"})), Lit(")"), Ss,
               Cls({":", "{"})>>), "gm"),
  RegExp(Cat(<<Bol, Lit("-"), Ss, Visibility, Sp, Opt(Cat(<<Lit("static"), Sp>>)),
               Opt(Cat(<<Lit("async"), Sp>>)), Plus(W), Ss, Lit("(")>>), "gm"),
  RegExp(Cat(<<Bol, Lit("-"), Sp, Plus(W), Ss, Opt(Cls({"?", ":"})), Ss, Lit(":")>>), "gm"),
  RegExp(Cat(<<Bol, Lit("-"), Ss, Lit("\"version\":"), Ss, Lit("\""), Plus(D)>>), "gm") >>

\* pattern.source of each of BREAKING_PATTERNS, as written in the source file.
BREAKING_PATTERN_SOURCES == <<
  "^-\\s*export\\s+(function|class|const|let|var|interface|type|enum)\\s+(\\w+)",
  "^-\\s*(public|private|protected)?\\s*(async\\s+)?function\\s+\\w+\\s*\\([^)]+\\)",
  "^-\\s*\\w+\\s*\\([^)]+\\)\\s*[:{]",
  "^-\\s*(public|private|protected)\\s+(static\\s+)?(async\\s+)?\\w+\\s*\\(",
  "^-\\s+\\w+\\s*[?:]?\\s*:",
  "^-\\s*\"version\":\\s*\"\\d+" >>

PlusMinus == Cls({"+", "-"})

\* The quote class of the second pattern also holds the backquote, which no text of
\* the model contains (a TLA+ string cannot hold it).
formattingPatterns == <<
  RegExp(Cat(<<Bol, PlusMinus, Ss, Eol>>), "gm"),
  RegExp(Cat(<<Bol, PlusMinus, Ss, Cls({"'", "\""}), Opt(Lit(";")), Ss, Eol>>), "gm"),
  RegExp(Cat(<<Bol, PlusMinus, Star(Dot), Lit(";"), Ss, Eol>>), "gm") >>

perfPatterns == <<
  RegExp(Cat(<<Wb, Lit("performance"), Wb>>), "i"),
  RegExp(Cat(<<Wb, Lit("optimiz"), Words(<<"e", "ation", "ing">>), Wb>>), "i"),
  RegExp(Cat(<<Wb, Lit("faster"), Wb>>), "i"),
  RegExp(Cat(<<Wb, Lit("speed"), Ss, Words(<<"up", "improvement">>), Wb>>), "i"),
  RegExp(Cat(<<Wb, Lit("cach"), Words(<<"e", "ing">>), Wb>>), "i"),
  RegExp(Cat(<<Wb, Lit("memoiz"), Words(<<"e", "ation">>), Wb>>), "i"),
  RegExp(Cat(<<Wb, Lit("lazy"), Ss, Lit("load")>>), "i"),
  RegExp(Cat(<<Wb, Lit("async"), Wb, Star(Dot), Wb, Lit("await"), Wb>>), "i"),
  RegExp(Cat(<<Wb, Lit("parallel"), Wb>>), "i"),
  RegExp(Cat(<<Wb, Lit("batch"), Opt(Lit("ing")), Wb>>), "i") >>

OptThe == Opt(Cat(<<Lit("the"), Ss>>))

fixPatterns == <<
  RegExp(Cat(<<Wb, Lit("fix"), Opt(Words(<<"es", "ed", "ing">>)), Ss, OptThe,
               Words(<<"bug", "issue", "error", "problem", "crash">>)>>), "i"),
  RegExp(Cat(<<Wb, Lit("fix"), Opt(Words(<<"es", "ed", "ing">>)), Wb>>), "i"),
  RegExp(Cat(<<Wb, Lit("bug"), Ss, Lit("fix")>>), "i"),
  RegExp(Cat(<<Wb, Lit("BUG:")>>), "i"),
  RegExp(Cat(<<Wb, Lit("hotfix"), Wb>>), "i"),
  RegExp(Cat(<<Wb, Lit("patch"), Opt(Words(<<"es", "ed", "ing">>)), Wb>>), "i"),
  RegExp(Cat(<<Wb, Lit("resolv"), Words(<<"e", "es", "ed", "ing">>), Ss, OptThe,
               Words(<<"issue", "bug", "error">>)>>), "i"),
  RegExp(Cat(<<Wb, Lit("correct"), Opt(Words(<<"s", "ed", "ing">>)), Ss, OptThe,
               Words(<<"bug", "issue", "error", "problem">>)>>), "i"),
  RegExp(Cat(<<Wb, Lit("repair"), Opt(Words(<<"s", "ed", "ing">>)), Wb>>), "i"),
  RegExp(Cat(<<Wb, Lit("handle"), Ss, Words(<<"error", "exception", "null", "undefined">>)>>), "i"),
  RegExp(Cat(<<Wb, Lit("null"), Ss, Lit("check")>>), "i"),
  RegExp(Cat(<<Wb, Lit("undefined"), Ss, Lit("check")>>), "i"),
  RegExp(Cat(<<Wb, Lit("try"), Ss, Lit("{"), Ss, Star(Dot), Ss, Lit("}"), Ss, Lit("catch")>>), "i"),
  RegExp(Cat(<<Wb, Lit("if"), Ss, Lit("("), Ss, Lit("!"), Ss, Plus(W), Ss, Lit(")")>>), ""),
  RegExp(Cat(<<Wb, Lit("was"), Ss, Lit("broken"), Wb>>), "i"),
  RegExp(Cat(<<Wb, Lit("broken"), Wb, Star(Dot), Wb, Lit("fix")>>), "i") >>

refactorPatterns == <<
  RegExp(Cat(<<Wb, Lit("refactor"), Opt(Words(<<"s", "ed", "ing">>)), Wb>>), "i"),
  RegExp(Cat(<<Wb, Lit("restructur"), Words(<<"e", "es", "ed", "ing">>), Wb>>), "i"),
  RegExp(Cat(<<Wb, Lit("clean"), Ss, Lit("up"), Wb>>), "i"),
  RegExp(Cat(<<Wb, Lit("simplif"), Words(<<"y", "ies", "ied", "ying">>), Wb>>), "i"),
  RegExp(Cat(<<Wb, Lit("renam"), Words(<<"e", "es", "ed", "ing">>), Wb>>), "i"),
  RegExp(Cat(<<Wb, Lit("mov"), Words(<<"e", "es", "ed", "ing">>), Ss,
               Words(<<"to", "from", "into">>), Wb>>), "i"),
  RegExp(Cat(<<Wb, Lit("extract"), Opt(Words(<<"s", "ed", "ing">>)), Ss,
               Words(<<"function", "method", "class", "component">>)>>), "i"),
  RegExp(Cat(<<Wb, Lit("inline"), Opt(Words(<<"s", "d", "ing">>)), Wb>>), "i"),
  RegExp(Cat(<<Wb, Lit("dedup"), Opt(Lit("licate")), Wb>>), "i"),
  RegExp(Cat(<<Wb, Lit("DRY"), Wb>>), "") >>

newExportsPattern ==
  RegExp(Cat(<<Bol, Lit("+"), Ss, Lit("export"), Sp,
               Words(<<"function", "class", "const", "let", "var", "interface", "type">>)>>), "m")
newFunctionsPattern ==
  RegExp(Cat(<<Bol, Lit("+"), Ss, Opt(Cat(<<Lit("async"), Sp>>)), Lit("function"), Sp, Plus(W)>>), "m")
newClassesPattern ==
  RegExp(Cat(<<Bol, Lit("+"), Ss, Lit("class"), Sp, Plus(W)>>), "m")
addedLinePattern == RegExp(Cat(<<Bol, Lit("+"), NotCls({"+"})>>), "gm")
removedLinePattern == RegExp(Cat(<<Bol, Lit("-"), NotCls({"-"})>>), "gm")

chorePatterns == <<
  RegExp(Cat(<<Wb, Lit("dependenc"), Words(<<"y", "ies">>), Wb>>), "i"),
  RegExp(Cat(<<Wb, Lit("upgrade"), Wb>>), "i"),
  RegExp(Cat(<<Wb, Lit("update"), Ss, Words(<<"version", "dep">>)>>), "i"),
  RegExp(Cat(<<Wb, Lit("bump"), Wb>>), "i"),
  RegExp(Cat(<<Wb, Lit("package.json"), Wb>>), "i"),
  RegExp(Cat(<<Wb, Lit("package-lock.json"), Wb>>), "i"),
  RegExp(Cat(<<Wb, Lit("yarn.lock"), Wb>>), "i"),
  RegExp(Cat(<<Wb, Lit(".gitignore"), Wb>>), "i"),
  RegExp(Cat(<<Wb, Lit("ci"), Wb, Star(Dot), Wb, Words(<<"config", "setup">>), Wb>>), "i"),
  RegExp(Cat(<<Wb, Lit("lint"), Opt(Words(<<"er", "ing">>)), Wb>>), "i") >>

featPatterns == <<
  RegExp(Cat(<<Wb, Lit("add"), Opt(Words(<<"s", "ed", "ing">>)), Sp,
               Words(<<"new", "feature", "support", "ability">>)>>), "i"),
  RegExp(Cat(<<Wb, Lit("implement"), Opt(Words(<<"s", "ed", "ing">>)), Wb>>), "i"),
  RegExp(Cat(<<Wb, Lit("introduc"), Words(<<"e", "es", "ed", "ing">>), Wb>>), "i"),
  RegExp(Cat(<<Wb, Lit("create"), Opt(Words(<<"s", "d", "ing">>)), Wb>>), "i"),
  RegExp(Cat(<<Wb, Lit("enable"), Opt(Words(<<"s", "d", "ing">>)), Wb>>), "i") >>

\* Whether the diff holds a changed line that is more than formatting.
hasLogicChanges(diff) ==
  LET all == split(diff, "\n")
      changed(line) == (startsWith(line, "+") \/ startsWith(line, "-"))
                       /\ ~startsWith(line, "+++") /\ ~startsWith(line, "---")
      skipped(content) == \/ Len(content) = 0
                          \/ startsWith(content, "//")
                          \/ startsWith(content, "/*")
                          \/ startsWith(content, "*")
                          \/ content \in {"{", "}", ";"}
  IN \E j \in DOMAIN all :
        changed(all[j]) /\ ~skipped(trim(SubSeq(all[j], 2, Len(all[j]))))

\* What determineCommitType and detectBreakingChanges read off one diff text.
factsOf(diff, lower, ps) ==
  [lower |-> lower,
   isFormattingChange |-> someTest(formattingPatterns, diff),
   hasLogicChanges |-> hasLogicChanges(diff),
   perf |-> someTest(perfPatterns, lower),
   fix |-> someTest(fixPatterns, diff),
   refactor |-> someTest(refactorPatterns, diff),
   hasNewExports |-> test(newExportsPattern, diff),
   hasNewFunctions |-> test(newFunctionsPattern, diff),
   hasNewClasses |-> test(newClassesPattern, diff),
   addedLines |-> countMatches(addedLinePattern, diff, 1),
   removedLines |-> countMatches(removedLinePattern, diff, 1),
   chore |-> someTest(chorePatterns, diff),
   feat |-> someTest(featPatterns, diff),
   breaking |-> [j \in DOMAIN ps |-> test(ps[j], diff)],
   breakingExec |-> [j \in DOMAIN ps |-> execFrom(ps[j], diff, 1)]]

diffFacts(diff) == factsOf(diff, toLowerCase(diff), BREAKING_PATTERNS)

\* Diffs that trip several of the breaking-change checks at once.
ReasonDiffs == {
  "-export function oldApi() {}\n-function foo(a, b) {}\n+// breaking change: removed, deprecated, incompatible",
  "+// removed the stub" }

DiffFacts == Tabulate([d \in DiffTexts \cup ReasonDiffs |-> diffFacts(d)])

Facts(diff) == DiffFacts[diff]

PathChore == Tabulate([q \in {Paths[j] : j \in DOMAIN Paths} |-> someTest(chorePatterns, toLowerCase(q))])

(***************************************************************************)
(* services/configService.ts                                               *)
(***************************************************************************)

ConfigFields ==
  {"scopes", "defaultType", "includeEmoji", "maxMessageLength", "customPatterns",
   "ticketLinking", "learnFromHistory", "breakingChangeDetection", "templates", "ai"}

\* The defaults with includeEmoji switched on.
DEFAULT_CONFIG_emojiOn ==
  [scopes |-> <<>>,
   defaultType |-> "feat",
   includeEmoji |-> Some(TRUE),
   maxMessageLength |-> 72,
   customPatterns |-> <<>>,
   ticketLinking |-> Some([enabled |-> Some(TRUE), prefix |-> Some("Refs:"), patterns |-> None]),
   learnFromHistory |-> Some([enabled |-> Some(TRUE), commitCount |-> Some(50)]),
   breakingChangeDetection |->
     Some([enabled |-> Some(TRUE), keywords |-> None, includeFooter |-> Some(TRUE)]),
   templates |-> None,
   ai |-> None]

\* An absent key reads as undefined (None); an optional key that is present is Some(v).
DEFAULT_CONFIG ==
  [scopes |-> <<>>,
   defaultType |-> "feat",
   includeEmoji |-> None,
   maxMessageLength |-> 72,
   customPatterns |-> <<>>,
   ticketLinking |-> Some([enabled |-> Some(TRUE), prefix |-> Some("Refs:"), patterns |-> None]),
   learnFromHistory |-> Some([enabled |-> Some(TRUE), commitCount |-> Some(50)]),
   breakingChangeDetection |->
     Some([enabled |-> Some(TRUE), keywords |-> None, includeFooter |-> Some(TRUE)]),
   templates |-> None,
   ai |-> None]

\* { ...DEFAULT_CONFIG, ...userConfig }: a key of the file replaces the default whole.
mergeConfig(userConfig) ==
  [key \in ConfigFields |->
     IF key \in DOMAIN userConfig THEN userConfig[key] ELSE DEFAULT_CONFIG[key]]

\* ConfigService.loadConfig: the cached configuration when there is one, or else the
\* file's keys over the defaults (a missing file is the file with no keys).
loadConfig(cache, file) == IF Has(cache) THEN Val(cache) ELSE mergeConfig(file)

(***************************************************************************)
(* services/analyzerService.ts: analysis                                   *)
(***************************************************************************)

lowerPath(p) == PathFacts[p].lower

countFiles(stagedFiles, fileType) ==
  Cardinality({j \in DOMAIN stagedFiles : detectFileType(stagedFiles[j].path) = fileType})

namesOf(files) == [j \in DOMAIN files |-> getFileName(files[j].path)]

\* The file names of the staged files of one status, in staging order.
fileNamesOf(stagedFiles, status) ==
  namesOf(SelectSeq(stagedFiles, LAMBDA f : f.status = status))

\* What a search reports: whether it matched, and the lastIndex it leaves behind.
matched(m) == [found |-> m[1] # 0, next |-> IF m[1] # 0 THEN m[2] - 1 ELSE 0]

\* A sticky search instead: pattern.test(diff) resumes at lastIndex and leaves it at the
\* end of the match, or at 0 when nothing matched.
matchPattern_test(j, diff, li) ==
  matched(IF li = 0 THEN Facts(diff).breakingExec[j]
          ELSE execFrom(BREAKING_PATTERNS[j], diff, li + 1))

\* pattern.lastIndex = 0; diff.match(pattern): String.prototype.match with a global
\* pattern searches from the start of the text and leaves lastIndex at 0.
matchPattern(j, diff, li) == [found |-> Facts(diff).breaking[j], next |-> 0]

\* The reason the pattern loop pushes for the pattern whose source is src.
patternReason(src) ==
  IF includes(src, "export") THEN <<"Removed exported members">>
  ELSE IF includes(src, "function") THEN <<"Changed function signatures">>
  ELSE IF includes(src, "public|private|protected") THEN <<"Removed class methods">>
  ELSE IF includes(src, "version") THEN <<"Major version change detected">>
  ELSE <<>>

PatternReasons == [j \in DOMAIN BREAKING_PATTERN_SOURCES |-> patternReason(BREAKING_PATTERN_SOURCES[j])]

\* for (const pattern of BREAKING_PATTERNS) { ... break; }: the reasons pushed and the
\* lastIndex of every pattern afterwards.  afterMatch is the rest of one iteration, m
\* being what the search of pattern j reported.
RECURSIVE patternLoop(_, _, _)
RECURSIVE afterMatch(_, _, _, _)
\* The iteration without its break: the later patterns are searched as well.
afterMatch_noBreak(j, diff, li, m) ==
  LET rest == patternLoop(j + 1, diff, [li EXCEPT ![j] = m.next])
  IN IF m.found THEN [reasons |-> PatternReasons[j] \o rest.reasons, li |-> rest.li]
     ELSE rest

afterMatch(j, diff, li, m) ==
  IF m.found THEN [reasons |-> PatternReasons[j], li |-> [li EXCEPT ![j] = m.next]]
  ELSE patternLoop(j + 1, diff, [li EXCEPT ![j] = m.next])

patternLoop(j, diff, li) ==
  IF j > Len(BREAKING_PATTERNS) THEN [reasons |-> <<>>, li |-> li]
  ELSE afterMatch(j, diff, li, matchPattern(j, diff, li[j]))

\* config.breakingChangeDetection?.keywords || DEFAULT_BREAKING_KEYWORDS
keywordsOf(breakingConfig) ==
  IF Has(breakingConfig) /\ Has(Val(breakingConfig).keywords)
  THEN Val(Val(breakingConfig).keywords)
  ELSE DEFAULT_BREAKING_KEYWORDS

\* One reason per keyword the lower-cased diff holds, in keyword order.
quoteKeywords(hits) == [j \in DOMAIN hits |-> "Contains \"" \o hits[j] \o "\" keyword"]

keywordReasons(diffLower, keywords) ==
  quoteKeywords(SelectSeq(keywords, LAMBDA kw : includes(diffLower, toLowerCase(kw))))

sourceFilesOf(stagedFiles, status) ==
  SelectSeq(stagedFiles, LAMBDA f : f.status = status /\ detectFileType(f.path) = "source")

deletedReasons(deletedSourceFiles) ==
  IF Len(deletedSourceFiles) > 0
  THEN <<"Deleted source files: " \o join(namesOf(deletedSourceFiles), ", ")>>
  ELSE <<>>

renameReasons(sourceRenames) ==
  IF Len(sourceRenames) > 0 THEN <<"Renamed source files (may break imports)">> ELSE <<>>

\* const uniqueReasons = [...new Set(reasons)] and the object returned.
breakingResult(uniqueReasons, li) ==
  [isBreaking |-> Len(uniqueReasons) > 0, reasons |-> uniqueReasons, li |-> li]

\* The reasons in the order the code pushes them; loop is what the pattern loop gave.
collectReasons(fromKeywords, fromDeleted, loop, fromRenames) ==
  breakingResult(uniq(fromKeywords \o fromDeleted \o loop.reasons \o fromRenames), loop.li)

detectBreakingChanges(diff, stagedFiles, config, li) ==
  IF Has(config.breakingChangeDetection)
     /\ Val(config.breakingChangeDetection).enabled = Some(FALSE)
  THEN [isBreaking |-> FALSE, reasons |-> <<>>, li |-> li]
  ELSE collectReasons(keywordReasons(Facts(diff).lower, keywordsOf(config.breakingChangeDetection)),
                      deletedReasons(sourceFilesOf(stagedFiles, "D")),
                      patternLoop(1, diff, li),
                      renameReasons(sourceFilesOf(stagedFiles, "R")))

isStylePath(p) ==
  \/ endsWith(p, ".css") \/ endsWith(p, ".scss") \/ endsWith(p, ".sass")
  \/ endsWith(p, ".less") \/ endsWith(p, ".styl")
  \/ includes(p, ".style") \/ includes(p, "styles/")

chorePath(p) == PathChore[p]

isStyleChange(stagedFiles) ==
  \E j \in DOMAIN stagedFiles : isStylePath(lowerPath(stagedFiles[j].path))

hasOnlyModifications(stagedFiles) == \A j \in DOMAIN stagedFiles : stagedFiles[j].status = "M"

hasNewFiles(stagedFiles) == \E j \in DOMAIN stagedFiles : stagedFiles[j].status = "A"

hasChoreFile(stagedFiles) == \E j \in DOMAIN stagedFiles : chorePath(stagedFiles[j].path)

\* Math.min(a, r) / Math.max(a, r) > 0.3 for a, r > 0.
isBalanced(a, r) == a > 0 /\ r > 0 /\ 10 * (IF a < r THEN a ELSE r) > 3 * (IF a < r THEN r ELSE a)

\* The cascade with the fix rule consulted before the perf rule.
cascade_fixFirst(filesAffected, f, style, onlyModifications, newFiles, choreFile) ==
  IF filesAffected.test > 0 /\ filesAffected.source = 0 /\ filesAffected.docs = 0
    THEN "test"
  ELSE IF filesAffected.docs > 0 /\ filesAffected.source = 0 /\ filesAffected.test = 0
    THEN "docs"
  ELSE IF filesAffected.config > 0 /\ filesAffected.source = 0 /\ filesAffected.test = 0
          /\ filesAffected.docs = 0
    THEN "chore"
  ELSE IF style \/ (f.isFormattingChange /\ ~f.hasLogicChanges) THEN "style"
  ELSE IF f.fix THEN "fix"
  ELSE IF f.perf THEN "perf"
  ELSE IF f.refactor THEN "refactor"
  ELSE IF onlyModifications /\ ~f.hasNewExports /\ ~f.hasNewFunctions /\ ~f.hasNewClasses
          /\ isBalanced(f.addedLines, f.removedLines)
    THEN "refactor"
  ELSE IF f.chore \/ choreFile THEN "chore"
  ELSE IF newFiles \/ f.hasNewExports \/ f.hasNewFunctions \/ f.hasNewClasses THEN "feat"
  ELSE IF f.feat THEN "feat"
  ELSE IF filesAffected.source > 0 THEN (IF onlyModifications THEN "refactor" ELSE "feat")
  ELSE "chore"

\* The if-cascade of determineCommitType over what it computed from its arguments: f is
\* what the diff tests gave, the flags what the staged files gave.
cascade(filesAffected, f, style, onlyModifications, newFiles, choreFile) ==
  IF filesAffected.test > 0 /\ filesAffected.source = 0 /\ filesAffected.docs = 0
    THEN "test"
  ELSE IF filesAffected.docs > 0 /\ filesAffected.source = 0 /\ filesAffected.test = 0
    THEN "docs"
  ELSE IF filesAffected.config > 0 /\ filesAffected.source = 0 /\ filesAffected.test = 0
          /\ filesAffected.docs = 0
    THEN "chore"
  ELSE IF style \/ (f.isFormattingChange /\ ~f.hasLogicChanges) THEN "style"
  ELSE IF f.perf THEN "perf"
  ELSE IF f.fix THEN "fix"
  ELSE IF f.refactor THEN "refactor"
  ELSE IF onlyModifications /\ ~f.hasNewExports /\ ~f.hasNewFunctions /\ ~f.hasNewClasses
          /\ isBalanced(f.addedLines, f.removedLines)
    THEN "refactor"
  ELSE IF f.chore \/ choreFile THEN "chore"
  ELSE IF newFiles \/ f.hasNewExports \/ f.hasNewFunctions \/ f.hasNewClasses THEN "feat"
  ELSE IF f.feat THEN "feat"
  ELSE IF filesAffected.source > 0 THEN (IF onlyModifications THEN "refactor" ELSE "feat")
  ELSE "chore"

determineCommitType(filesAffected, diff, stagedFiles) ==
  cascade(filesAffected, Facts(diff), isStyleChange(stagedFiles),
          hasOnlyModifications(stagedFiles), hasNewFiles(stagedFiles),
          hasChoreFile(stagedFiles))

plural(n) == IF n > 1 THEN "s" ELSE ""

generateDescription(filesAffected, fileStatuses, stagedFiles, diff) ==
  LET single == Len(stagedFiles) = 1 /\ stagedFiles[1].status \in {"A", "D", "M", "R"}
      verb == [A |-> "add ", D |-> "remove ", M |-> "update ", R |-> "rename "]
      added == IF fileStatuses.added > 0
               THEN <<"add " \o numToString(fileStatuses.added) \o " file"
                      \o plural(fileStatuses.added)>>
               ELSE <<>>
      modified == IF fileStatuses.modified > 0 /\ Len(added) = 0
                  THEN <<"update " \o numToString(fileStatuses.modified) \o " file"
                         \o plural(fileStatuses.modified)>>
                  ELSE <<>>
      deleted == IF fileStatuses.deleted > 0
                 THEN <<"remove " \o numToString(fileStatuses.deleted) \o " file"
                        \o plural(fileStatuses.deleted)>>
                 ELSE <<>>
      parts == added \o modified \o deleted
  IN IF single THEN verb[stagedFiles[1].status] \o getFileName(stagedFiles[1].path)
     ELSE IF filesAffected.test > 0 /\ filesAffected.source = 0 THEN "update test files"
     ELSE IF filesAffected.docs > 0 /\ filesAffected.source = 0 THEN "update documentation"
     ELSE IF filesAffected.config > 0 /\ filesAffected.source = 0 THEN "update configuration"
     ELSE IF Len(parts) > 0 THEN join(parts, " and ")
     ELSE "update " \o numToString(Len(stagedFiles)) \o " file" \o plural(Len(stagedFiles))

validScopes == {"api", "ui", "auth", "db", "core", "utils", "components", "services"}

minOf(ns) == CHOOSE n \in ns : \A n2 \in ns : n <= n2

\* paths.filter((p) => p.includes(mapping.pattern)).length
matchingFiles(paths, mapping) ==
  Cardinality({q \in DOMAIN paths : includes(paths[q], mapping.pattern)})

\* determineScope with one pass over the mappings, which takes the first that matches
\* more than half of the paths.
determineScope_firstMajority(stagedFiles, config) ==
  IF Len(stagedFiles) = 0 THEN None
  ELSE
    LET paths == [j \in DOMAIN stagedFiles |-> stagedFiles[j].path]
        scopes == config.scopes
        mostOf == {j \in DOMAIN scopes : 2 * matchingFiles(paths, scopes[j]) > Len(paths)}
        parts == PathFacts[paths[1]].parts
    IN IF mostOf # {} THEN Some(scopes[minOf(mostOf)].scope)
       ELSE IF Len(parts) > 1 /\ toLowerCase(parts[1]) \in validScopes THEN Some(parts[1])
       ELSE None

\* undefined is None.
determineScope(stagedFiles, config) ==
  IF Len(stagedFiles) = 0 THEN None
  ELSE
    LET paths == [j \in DOMAIN stagedFiles |-> stagedFiles[j].path]
        scopes == config.scopes
        allOf == {j \in DOMAIN scopes : matchingFiles(paths, scopes[j]) = Len(paths)}
        mostOf == {j \in DOMAIN scopes : 2 * matchingFiles(paths, scopes[j]) > Len(paths)}
        parts == PathFacts[paths[1]].parts
    IN IF allOf # {} THEN Some(scopes[minOf(allOf)].scope)
       ELSE IF mostOf # {} THEN Some(scopes[minOf(mostOf)].scope)
       ELSE IF Len(parts) > 1 /\ toLowerCase(parts[1]) \in validScopes THEN Some(parts[1])
       ELSE None

countsOf(stagedFiles) ==
  [test |-> countFiles(stagedFiles, "test"),
   docs |-> countFiles(stagedFiles, "docs"),
   config |-> countFiles(stagedFiles, "config"),
   source |-> countFiles(stagedFiles, "source")]

changesOf(stagedFiles) ==
  [added |-> fileNamesOf(stagedFiles, "A"),
   modified |-> fileNamesOf(stagedFiles, "M"),
   deleted |-> fileNamesOf(stagedFiles, "D"),
   renamed |-> fileNamesOf(stagedFiles, "R")]

statusCounts(fileChanges) ==
  [added |-> Len(fileChanges.added),
   modified |-> Len(fileChanges.modified),
   deleted |-> Len(fileChanges.deleted),
   renamed |-> Len(fileChanges.renamed)]

\* isLargeChange with thresholds that must be exceeded.
isLargeChange_above(stagedFiles, stats) ==
  Len(stagedFiles) > 3 \/ stats.insertions + stats.deletions > 100

\* const totalChanges = stats.insertions + stats.deletions;
\* const isLargeChange = stagedFiles.length >= 3 || totalChanges >= 100;
isLargeChange(stagedFiles, stats) ==
  Len(stagedFiles) >= 3 \/ stats.insertions + stats.deletions >= 100

\* The ChangeAnalysis object assembled from the counts, the names and the verdict of
\* detectBreakingChanges.
assemble(stagedFiles, diff, stats, config, filesAffected, fileChanges, breaking) ==
  [commitType |-> determineCommitType(filesAffected, diff, stagedFiles),
   scope |-> determineScope(stagedFiles, config),
   description |->
     generateDescription(filesAffected, statusCounts(fileChanges), stagedFiles, diff),
   filesAffected |-> filesAffected,
   fileChanges |-> fileChanges,
   isLargeChange |-> isLargeChange(stagedFiles, stats),
   isBreakingChange |-> breaking.isBreaking,
   breakingChangeReasons |-> breaking.reasons,
   li |-> breaking.li]

\* AnalyzerService.analyzeChanges on what git reports; li is the lastIndex of each of
\* BREAKING_PATTERNS before the call, the result's li the one after it.
analyzeChanges(stagedFiles, diff, stats, config, li) ==
  assemble(stagedFiles, diff, stats, config, countsOf(stagedFiles), changesOf(stagedFiles),
           detectBreakingChanges(diff, stagedFiles, config, li))

(***************************************************************************)
(* services/historyService.ts                                              *)
(***************************************************************************)

\* The branch names git reports ("" when there is none) and the commit logs.
Branches == {"main", "feature/ABC-123-login"}

\* Branch names with no ticket, with one, and with several a pattern can match.
TicketBranches ==
  {"", "main", "feature/ABC-123-fix-#45", "fix/#456-bug", "feature/CUSTOM-999-task",
   "hotfix/T-cleanup"}

PlainLog == <<"feat(src): add parser", "fix(src): handle null", "update the docs">>
EmojiLog == <<":sparkles: add parser", "fix(Old): repair loader", "chore: bump">>

\* Logs of n subjects, of which the first e start with an emoji and the next c with a
\* conventional-commit prefix.
MaxCommits == 10

SampleLog(e, c, n) ==
  [j \in 1..n |-> IF j <= e THEN ":bug: repair loader"
                   ELSE IF j <= e + c THEN "feat(api): add parser"
                   ELSE "update the docs"]

SampleLogs ==
  UNION {{SampleLog(e, c, n) : e \in 0..n, c \in 0..n} : n \in 1..MaxCommits}

\* A log whose first subject has a scope of parentheses alone.
ParenLog == <<"feat(()): tidy parser", "fix: handle null">>

Logs == {<<>>, PlainLog, EmojiLog, ParenLog} \cup SampleLogs

DEFAULT_TICKET_PATTERNS == <<
  RegExp(Cat(<<Rep(Cls(UpperChars), 2, 10), Lit("-"), Plus(D)>>), "g"),
  RegExp(Cat(<<Lit("#"), Plus(D)>>), "g"),
  RegExp(Cat(<<Rep(Cls(UpperChars), 2, 10), Lit("_"), Plus(D)>>), "g") >>

\* Where capture group 1 starts inside the match of each default pattern.
TicketGroupStart == <<0, 1, 0>>

\* The code-point classes of the source are written as shortcodes here, which the last
\* alternative of the pattern matches.
EMOJI_PATTERN ==
  RegExp(Cat(<<Bol, Lit(":"), Plus(Cls(WordChars \cup {"+", "-"})), Lit(":")>>), "")

CommitTypeWords ==
  Words(<<"feat", "fix", "docs", "style", "refactor", "test", "chore", "perf", "ci", "build",
          "revert">>)

CONVENTIONAL_COMMIT_PATTERN ==
  RegExp(Cat(<<Bol, CommitTypeWords,
               Opt(Cat(<<Lit("("), Plus(Dot), Lit(")")>>)), Opt(Lit("!")), Lit(":")>>), "i")

CACHE_TTL == 60000

\* The spans <<start, end>> a parenthesised group can take after the commit type, the
\* rest of the pattern f still matching behind it.
groupSpans(subject, f) ==
  {<<p, e>> \in Ends(Cat(<<Bol, CommitTypeWords>>), subject, 1, f) \X (1..(Len(subject) + 1)) :
     /\ e \in Ends(Cat(<<Lit("("), Plus(Dot), Lit(")")>>), subject, p, f)
     /\ Ends(Cat(<<Opt(Lit("!")), Lit(":")>>), subject, e, f) # {}}

\* The text of the longest of the spans (the group is greedy); None without a span.
longestSpan(subject, spans) ==
  IF spans = {} THEN None
  ELSE LET pe == CHOOSE pe \in spans : \A other \in spans : other[2] <= pe[2]
       IN Some(SubSeq(subject, pe[1], pe[2] - 1))

\* conventionalMatch[2] of subject.match(CONVENTIONAL_COMMIT_PATTERN): the parenthesised
\* group; None when the group took no part in the match.
scopeGroup(subject) == longestSpan(subject, groupSpans(subject, CONVENTIONAL_COMMIT_PATTERN))

\* str.replace(/[()]/g, '')
RECURSIVE stripParens(_)
stripParens(s) ==
  IF Len(s) = 0 THEN ""
  ELSE IF Len(s) = 1 THEN (IF s \in {"(", ")"} THEN "" ELSE s)
  ELSE LET h == Len(s) \div 2
       IN stripParens(SubSeq(s, 1, h)) \o stripParens(SubSeq(s, h + 1, Len(s)))

\* What one subject adds to the scope counts: its scope without parentheses.
scopeEntry(g) == IF Has(g) THEN <<stripParens(Val(g))>> ELSE <<>>

\* str.replace(pattern, '') for a pattern without the g flag: the first match is cut out.
removeMatch(s, m) ==
  IF m[1] = 0 THEN s ELSE SubSeq(s, 1, m[1] - 1) \o SubSeq(s, m[2], Len(s))

replaceFirst(r, s) == removeMatch(s, execFrom(r, s, 1))

cleanSubject(subject) ==
  trim(replaceFirst(CONVENTIONAL_COMMIT_PATTERN, replaceFirst(EMOJI_PATTERN, subject)))

\* cleanSubject.split(/\s+/)[0]
cutAt(s, spaces) == IF spaces = {} THEN s ELSE SubSeq(s, 1, minOf(spaces) - 1)

firstWord(s) == cutAt(s, {i \in 1..Len(s) : CharAt(s, i) \in SpaceChars})

\* firstWord && firstWord.length > 2 && /^[a-z]+$/.test(firstWord): what the subject adds
\* to the verb counts.
verbEntry(w) ==
  IF Len(w) > 2 /\ \A i \in 1..Len(w) : CharAt(w, i) \in CharsOf(LowerAlphabet)
  THEN <<w>> ELSE <<>>

\* What the two patterns find in each subject of the logs: subject.match(EMOJI_PATTERN),
\* subject.match(CONVENTIONAL_COMMIT_PATTERN) and its second group, and the verb.
SubjectFacts ==
  Tabulate([subject \in UNION {{commits[j] : j \in DOMAIN commits} : commits \in Logs} |->
              [emoji |-> test(EMOJI_PATTERN, subject),
               conventional |-> test(CONVENTIONAL_COMMIT_PATTERN, subject),
               scope |-> IF test(CONVENTIONAL_COMMIT_PATTERN, subject)
                         THEN scopeGroup(subject) ELSE None,
               verb |-> verbEntry(toLowerCase(firstWord(cleanSubject(subject))))]])

\* The scopes of the conventional subjects, one entry per occurrence, in log order.
RECURSIVE scopesOf(_)
scopesOf(commits) ==
  IF Len(commits) = 0 THEN <<>>
  ELSE scopeEntry(SubjectFacts[Head(commits)].scope) \o scopesOf(Tail(commits))

\* Object.entries(scopeCount).sort((a, b) => b[1] - a[1]): the keys by falling count,
\* keys of equal count in the order of their first occurrence.
RECURSIVE byCount(_, _)
byCount(keys, all) ==
  IF Len(keys) = 0 THEN <<>>
  ELSE LET count(key) == Cardinality({j \in DOMAIN all : all[j] = key})
           best == minOf({j \in DOMAIN keys : \A q \in DOMAIN keys : count(keys[q]) <= count(keys[j])})
       IN <<keys[best]>> \o byCount(SelectSeq(keys, LAMBDA key : key # keys[best]), all)

\* The ten most frequent scopes.
commonScopesOf(scopes) == SubSeq(scopes, 1, IF Len(scopes) < 10 THEN Len(scopes) ELSE 10)

sortedScopes(scopes) == byCount(uniq(scopes), scopes)

\* The verbs of the subjects, one entry per occurrence, in log order.
RECURSIVE verbsOf(_)
verbsOf(commits) ==
  IF Len(commits) = 0 THEN <<>>
  ELSE SubjectFacts[Head(commits)].verb \o verbsOf(Tail(commits))

RECURSIVE totalLength(_)
totalLength(commits) ==
  IF Len(commits) = 0 THEN 0 ELSE Len(Head(commits)) + totalLength(Tail(commits))

\* Math.round(total / n): to the nearest integer, a half upwards.
roundDiv(total, n) == (2 * total + n) \div (2 * n)

\* performAnalysis with thresholds that are reached at 30% and at 50%.
performAnalysis_atLeast(commits) ==
  [usesEmojis |->
     10 * Cardinality({j \in DOMAIN commits : SubjectFacts[commits[j]].emoji})
       >= 3 * Len(commits),
   usesConventionalCommits |->
     2 * Cardinality({j \in DOMAIN commits : SubjectFacts[commits[j]].conventional})
       >= Len(commits),
   commonScopes |-> commonScopesOf(sortedScopes(scopesOf(commits))),
   commonVerbs |-> commonScopesOf(sortedScopes(verbsOf(commits))),
   averageLength |-> roundDiv(totalLength(commits), Len(commits))]

performAnalysis(commits) ==
  [usesEmojis |->
     10 * Cardinality({j \in DOMAIN commits : SubjectFacts[commits[j]].emoji})
       > 3 * Len(commits),
   usesConventionalCommits |->
     2 * Cardinality({j \in DOMAIN commits : SubjectFacts[commits[j]].conventional})
       > Len(commits),
   commonScopes |-> commonScopesOf(sortedScopes(scopesOf(commits))),
   commonVerbs |-> commonScopesOf(sortedScopes(verbsOf(commits))),
   averageLength |-> roundDiv(totalLength(commits), Len(commits))]

LogFacts == Tabulate([commits \in Logs \ {<<>>} |-> performAnalysis(commits)])

getDefaultAnalysis ==
  [usesEmojis |-> TRUE, usesConventionalCommits |-> TRUE, commonScopes |-> <<>>,
   commonVerbs |-> <<"add", "update", "fix", "remove", "refactor">>,
   averageLength |-> 50]

\* The analysis returned and kept: cachedAnalysis = analysis, cacheTimestamp = now.
remember(analysis, now) ==
  [analysis |-> analysis, h |-> [cache |-> Some(analysis), ts |-> now], read |-> TRUE]

\* analyzeCommitHistory with a cache that is still served when it is exactly CACHE_TTL old.
analyzeCommitHistory_inclusive(config, h, now, commits) ==
  IF Has(config.learnFromHistory) /\ Val(config.learnFromHistory).enabled = Some(FALSE)
    THEN [analysis |-> getDefaultAnalysis, h |-> h, read |-> FALSE]
  ELSE IF Has(h.cache) /\ now - h.ts <= CACHE_TTL
    THEN [analysis |-> Val(h.cache), h |-> h, read |-> FALSE]
  ELSE IF Len(commits) = 0
    THEN [analysis |-> getDefaultAnalysis, h |-> h, read |-> TRUE]
  ELSE remember(LogFacts[commits], now)

\* analyzeCommitHistory that keeps the default profile of an empty history in the cache.
analyzeCommitHistory_cacheDefault(config, h, now, commits) ==
  IF Has(config.learnFromHistory) /\ Val(config.learnFromHistory).enabled = Some(FALSE)
    THEN [analysis |-> getDefaultAnalysis, h |-> h, read |-> FALSE]
  ELSE IF Has(h.cache) /\ now - h.ts < CACHE_TTL
    THEN [analysis |-> Val(h.cache), h |-> h, read |-> FALSE]
  ELSE IF Len(commits) = 0
    THEN remember(getDefaultAnalysis, now)
  ELSE remember(LogFacts[commits], now)

\* HistoryService.analyzeCommitHistory; h holds cachedAnalysis and cacheTimestamp before
\* the call, the result's h what they are after it, and read tells whether the call
\* reached GitService.getCommitHistory.
analyzeCommitHistory(config, h, now, commits) ==
  IF Has(config.learnFromHistory) /\ Val(config.learnFromHistory).enabled = Some(FALSE)
    THEN [analysis |-> getDefaultAnalysis, h |-> h, read |-> FALSE]
  ELSE IF Has(h.cache) /\ now - h.ts < CACHE_TTL
    THEN [analysis |-> Val(h.cache), h |-> h, read |-> FALSE]
  ELSE IF Len(commits) = 0
    THEN [analysis |-> getDefaultAnalysis, h |-> h, read |-> TRUE]
  ELSE remember(LogFacts[commits], now)

\* HistoryService.clearCache
clearCache == [cache |-> None, ts |-> 0]

usesEmojisOf(r) == [value |-> r.analysis.usesEmojis, h |-> r.h]

projectUsesEmojis(config, h, now, commits) ==
  usesEmojisOf(analyzeCommitHistory(config, h, now, commits))

\* The positions of the common scopes that some file path holds, in any letter case.
scopeHits(filePaths, common) ==
  {j \in DOMAIN common :
     \E q \in DOMAIN filePaths : includes(lowerPath(filePaths[q]), toLowerCase(common[j]))}

firstHit(common, hits) == IF hits = {} THEN None ELSE Some(common[minOf(hits)])

suggestedOf(filePaths, r) ==
  [value |-> firstHit(r.analysis.commonScopes, scopeHits(filePaths, r.analysis.commonScopes)),
   h |-> r.h]

getSuggestedScope(filePaths, config, h, now, commits) ==
  suggestedOf(filePaths, analyzeCommitHistory(config, h, now, commits))

BranchFacts ==
  Tabulate([b \in Branches \cup (TicketBranches \ {""}) |->
              [j \in DOMAIN DEFAULT_TICKET_PATTERNS |-> execFrom(DEFAULT_TICKET_PATTERNS[j], b, 1)]])

execTicket(j, branch) == BranchFacts[branch][j]

\* The loop over DEFAULT_TICKET_PATTERNS: lastIndex = 0, exec, return at the first match.
RECURSIVE ticketLoop(_, _, _, _)
ticketLoop(j, branch, prefix, tli) ==
  IF j > Len(DEFAULT_TICKET_PATTERNS) THEN [ticket |-> None, tli |-> tli]
  ELSE LET m == execTicket(j, branch)
       IN IF m[1] # 0
          THEN [ticket |-> Some([id |-> SubSeq(branch, m[1] + TicketGroupStart[j], m[2] - 1),
                                 source |-> "branch", prefix |-> prefix]),
                tli |-> [tli EXCEPT ![j] = m[2] - 1]]
          ELSE ticketLoop(j + 1, branch, prefix, [tli EXCEPT ![j] = 0])

\* match[1] || match[0] of a configured pattern: group is where capture group 1 starts
\* inside the match (it runs to the end of the match), or -1 without a group.
ticketId(pattern, branch, m) ==
  LET whole == SubSeq(branch, m[1], m[2] - 1)
      first == IF pattern.group >= 0 THEN SubSeq(branch, m[1] + pattern.group, m[2] - 1) ELSE ""
  IN IF first # "" THEN first ELSE whole

\* The loop over the patterns of the configuration, compiled anew by every call.
RECURSIVE customTicketLoop(_, _, _, _)
customTicketLoop(patterns, j, branch, prefix) ==
  IF j > Len(patterns) THEN None
  ELSE LET m == execFrom(patterns[j].regex, branch, 1)
       IN IF m[1] # 0
          THEN Some([id |-> ticketId(patterns[j], branch, m), source |-> "branch",
                     prefix |-> prefix])
          ELSE customTicketLoop(patterns, j + 1, branch, prefix)

\* HistoryService.detectTicketFromBranch; null is None.
detectTicketFromBranch(config, branch, tli) ==
  LET ticketConfig == config.ticketLinking
      prefix == IF Has(ticketConfig) /\ Has(Val(ticketConfig).prefix)
                   /\ Val(Val(ticketConfig).prefix) # ""
                THEN Val(Val(ticketConfig).prefix) ELSE "Refs:"
  IN IF Has(ticketConfig) /\ Val(ticketConfig).enabled = Some(FALSE)
       THEN [ticket |-> None, tli |-> tli]
     ELSE IF branch = "" THEN [ticket |-> None, tli |-> tli]
     ELSE IF Has(ticketConfig) /\ Has(Val(ticketConfig).patterns)
       THEN [ticket |-> customTicketLoop(Val(Val(ticketConfig).patterns), 1, branch, prefix),
             tli |-> tli]
     ELSE ticketLoop(1, branch, prefix, tli)

(***************************************************************************)
(* services/analyzerService.ts: rendering                                  *)
(***************************************************************************)

\* A value that if (v) takes: a string that is neither undefined nor empty.
Truthy(o) == Has(o) /\ Val(o) # ""

generateBody(analysis) ==
  IF ~analysis.isLargeChange THEN None
  ELSE
    LET fc == analysis.fileChanges
        shown == SubSeq(fc.modified, 1, IF Len(fc.modified) < 5 THEN Len(fc.modified) ELSE 5)
        suffix == IF Len(fc.modified) > 5
                  THEN " and " \o numToString(Len(fc.modified) - 5) \o " more" ELSE ""
        lines ==
          (IF Len(fc.added) > 0 THEN <<"- Add " \o join(fc.added, ", ")>> ELSE <<>>)
          \o (IF Len(fc.modified) > 0 THEN <<"- Update " \o join(shown, ", ") \o suffix>>
              ELSE <<>>)
          \o (IF Len(fc.deleted) > 0 THEN <<"- Remove " \o join(fc.deleted, ", ")>> ELSE <<>>)
          \o (IF Len(fc.renamed) > 0 THEN <<"- Rename " \o join(fc.renamed, ", ")>> ELSE <<>>)
    IN IF Len(lines) > 0 THEN Some(join(lines, "\n")) ELSE None

\* result.replace(/\s+/g, ' ') on the characters lo..hi of s.
RECURSIVE collapseSpaces(_, _, _)
collapseSpaces(s, lo, hi) ==
  IF lo > hi THEN ""
  ELSE IF lo = hi
    THEN (IF CharAt(s, lo) \notin SpaceChars THEN CharAt(s, lo)
          ELSE IF lo > 1 /\ CharAt(s, lo - 1) \in SpaceChars THEN "" ELSE " ")
  ELSE LET h == (lo + hi) \div 2
       IN collapseSpaces(s, lo, h) \o collapseSpaces(s, h + 1, hi)

\* The {scope} placeholder: filled, or removed with its parentheses.
fillScope(filled, scope) ==
  IF Truthy(scope) THEN replace(filled, "{scope}", Val(scope))
  ELSE replace(replace(filled, "({scope})", ""), "{scope}", "")

\* result.replace(/\s+/g, ' ').trim()
tidy(s) == trim(collapseSpaces(s, 1, Len(s)))

applyTemplate(template, type, scope, description, includeEmoji, isBreaking) ==
  tidy(fillScope(replace(replace(replace(template, "{emoji}",
                                         IF includeEmoji THEN COMMIT_EMOJIS[type] ELSE ""),
                                 "{type}", type \o (IF isBreaking THEN "!" ELSE "")),
                         "{description}", description),
                 scope))

\* The additional reasons, each on a line of its own.
RECURSIVE bulletLines(_, _)
bulletLines(reasons, j) ==
  IF j > Len(reasons) THEN "" ELSE "\n- " \o reasons[j] \o bulletLines(reasons, j + 1)

\* The template the subject line is rendered from.
templateFor(scope, templates) ==
  IF Truthy(scope)
  THEN (IF Truthy(templates.default) THEN Val(templates.default)
        ELSE "{emoji} {type}({scope}): {description}")
  ELSE (IF Truthy(templates.noScope) THEN Val(templates.noScope)
        ELSE "{emoji} {type}: {description}")

\* The subject line.
subjectLine(type, scope, description, includeEmoji, isBreaking, config) ==
  IF Has(config.templates)
  THEN applyTemplate(templateFor(scope, Val(config.templates)), type, scope, description,
                     includeEmoji, isBreaking)
  ELSE (IF includeEmoji THEN COMMIT_EMOJIS[type] \o " " ELSE "")
       \o type
       \o (IF Truthy(scope) THEN "(" \o Val(scope) \o ")" ELSE "")
       \o (IF isBreaking THEN "!" ELSE "")
       \o ": " \o description

\* What the body adds to the message.
bodyPart(body) == IF Truthy(body) THEN "\n\n" \o Val(body) ELSE ""

\* The footer written whatever includeFooter says.
breakingFooter_always(isBreaking, breakingReasons, bcd) ==
  IF isBreaking /\ Len(breakingReasons) > 0
  THEN "\n\nBREAKING CHANGE: " \o breakingReasons[1] \o bulletLines(breakingReasons, 2)
  ELSE ""

\* What the BREAKING CHANGE footer adds to the message; bcd is
\* config.breakingChangeDetection.
breakingFooter(isBreaking, breakingReasons, bcd) ==
  IF isBreaking /\ ~(Has(bcd) /\ Val(bcd).includeFooter = Some(FALSE))
     /\ Len(breakingReasons) > 0
  THEN "\n\nBREAKING CHANGE: " \o breakingReasons[1] \o bulletLines(breakingReasons, 2)
  ELSE ""

\* The ticket reference appended without the blank line.
ticketFooter_noBlankLine(ticketInfo) ==
  IF Has(ticketInfo)
  THEN "\n" \o (IF Val(ticketInfo).prefix # "" THEN Val(ticketInfo).prefix ELSE "Refs:")
       \o " " \o Val(ticketInfo).id
  ELSE ""

\* What the ticket reference adds to the message.
ticketFooter(ticketInfo) ==
  IF Has(ticketInfo)
  THEN "\n\n" \o (IF Val(ticketInfo).prefix # "" THEN Val(ticketInfo).prefix ELSE "Refs:")
       \o " " \o Val(ticketInfo).id
  ELSE ""

buildFullMessage(type, scope, description, body, includeEmoji, ticketInfo, isBreaking, breakingReasons, config) ==
  subjectLine(type, scope, description, includeEmoji, isBreaking, config)
  \o bodyPart(body)
  \o breakingFooter(isBreaking, breakingReasons, config.breakingChangeDetection)
  \o ticketFooter(ticketInfo)

generateAlternativeDescription(analysis) ==
  LET fc == analysis.fileChanges
      fa == analysis.filesAffected
      totalFiles == Len(fc.added) + Len(fc.modified) + Len(fc.deleted) + Len(fc.renamed)
      part(n, word) == IF n > 0 THEN <<numToString(n) \o " " \o word \o plural(n)>> ELSE <<>>
      parts == part(fa.source, "source file") \o part(fa.test, "test") \o part(fa.docs, "doc")
               \o part(fa.config, "config")
  IN IF totalFiles = 1 /\ Len(fc.added) = 1 THEN "implement " \o fc.added[1]
     ELSE IF totalFiles = 1 /\ Len(fc.modified) = 1 THEN "improve " \o fc.modified[1]
     ELSE IF Len(parts) > 0 THEN "update " \o join(parts, ", ")
     ELSE analysis.description

(***************************************************************************)
(* The state of the program and of what it reads                           *)
(***************************************************************************)

VARIABLES
  gitStaged,        \* GitService.getStagedFiles(): <<[status, path], ...>>
  gitDiff,          \* GitService.getDiff()
  gitStats,         \* GitService.getDiffStats()
  gitBranch,        \* GitService.getCurrentBranch()
  gitLog,           \* GitService.getCommitHistory(): the subjects, newest first
  configFile,       \* the keys of the configuration file
  hooks,            \* the .git directory: where it is, its directories, its files
  cachedConfig,     \* ConfigService.cachedConfig
  cachedAnalysis,   \* HistoryService.cachedAnalysis
  cacheTimestamp,   \* HistoryService.cacheTimestamp
  clock,            \* Date.now()
  lastIndex,        \* BREAKING_PATTERNS[j].lastIndex
  ticketLastIndex,  \* DEFAULT_TICKET_PATTERNS[j].lastIndex
  pc,               \* "idle", or "awaiting" inside generateSuggestionsWithAI
  pending,          \* the locals of the suspended generateSuggestionsWithAI
  aiAnswer,         \* the settled outcome of the AI request, not yet consumed
  aiCalls,          \* AI requests sent by the running generateSuggestionsWithAI
  ret               \* the last call and what it returned

vars ==
  <<gitStaged, gitDiff, gitStats, gitBranch, gitLog, configFile, hooks, cachedConfig,
    cachedAnalysis, cacheTimestamp, clock, lastIndex, ticketLastIndex, pc, pending, aiAnswer, aiCalls, ret>>

gitVars == <<gitStaged, gitDiff, gitStats, gitBranch, gitLog, configFile, hooks>>
historyVars == <<cachedAnalysis, cacheTimestamp>>
aiVars == <<pc, pending, aiAnswer, aiCalls>>

MaxFiles == 2

Statuses == {"A", "M", "D", "R"}

\* The members of a set of positions, in increasing order.
RECURSIVE ascending(_)
ascending(ns) == IF ns = {} THEN <<>> ELSE <<minOf(ns)>> \o ascending(ns \ {minOf(ns)})

\* The staged-file lists of at most n files over the paths at the positions in ps.
StagedLists(ps, n) ==
  UNION {
    LET order == ascending(chosen)
    IN {[j \in DOMAIN order |-> [status |-> st[order[j]], path |-> Paths[order[j]]]]
          : st \in [chosen -> Statuses]}
    : chosen \in {c \in SUBSET ps : Cardinality(c) <= n} }

AnalyzePaths ==
  {j \in DOMAIN Paths :
     Paths[j] \in {"README.md", "api/index.ts", "package.json", "src/api/users.ts", "src/old.ts",
                   "src/styles/main.css", "src/users.test.ts"}}

AnalyzeStaged == StagedLists(AnalyzePaths, MaxFiles)

SmallStats == [filesChanged |-> 1, insertions |-> 3, deletions |-> 1]
LargeStats == [filesChanged |-> 1, insertions |-> 80, deletions |-> 20]

\* Configuration files that set breakingChangeDetection.
BreakingConfigFiles ==
  { <<>>,
    [breakingChangeDetection |-> Some([enabled |-> Some(FALSE), keywords |-> None,
                                       includeFooter |-> None])],
    [breakingChangeDetection |-> Some([enabled |-> None,
                                       keywords |-> Some(<<"stub", "removed", "stub">>),
                                       includeFooter |-> None])],
    [breakingChangeDetection |-> Some([enabled |-> Some(TRUE), keywords |-> Some(<<>>),
                                       includeFooter |-> Some(FALSE)])] }

ZeroIndex == [j \in DOMAIN BREAKING_PATTERNS |-> 0]

\* ConfigService.getConfig() in the current state.
effectiveConfig == loadConfig(cachedConfig, configFile)

Returned(op) == Has(ret) /\ Val(ret).op = op

\* The program after loading: nothing cached, every lastIndex 0, no call made.
Fresh ==
  /\ hooks = [gitDir |-> Some("/project/.git"), dirs |-> {"/project/.git/hooks"}, files |-> <<>>]
  /\ cachedConfig = None
  /\ cachedAnalysis = None
  /\ cacheTimestamp = 0
  /\ clock = 0
  /\ lastIndex = ZeroIndex
  /\ ticketLastIndex = <<0, 0, 0>>
  /\ pc = "idle"
  /\ pending = None
  /\ aiAnswer = None
  /\ aiCalls = 0
  /\ ret = None

InitAnalyze ==
  /\ gitStaged \in AnalyzeStaged
  /\ gitDiff \in DiffTexts
  /\ gitStats = SmallStats
  /\ gitBranch = "main"
  /\ gitLog = <<>>
  /\ configFile \in BreakingConfigFiles
  /\ Fresh

\* A call of AnalyzerService.analyzeChanges().
AnalyzeChanges ==
  /\ pc = "idle"
  /\ \E config \in {effectiveConfig} :
       \E analysis \in {analyzeChanges(gitStaged, gitDiff, gitStats, config, lastIndex)} :
          /\ cachedConfig' = Some(config)
          /\ lastIndex' = analysis.li
          /\ ret' = Some([op |-> "analyzeChanges", value |-> analysis])
  /\ UNCHANGED <<gitVars, historyVars, clock, ticketLastIndex, aiVars>>

\* The developer stages another change: git reports another diff.
EditDiff ==
  /\ pc = "idle"
  /\ \E d \in DiffTexts \ {gitDiff} : gitDiff' = d
  /\ ret' = None
  /\ UNCHANGED <<hooks, gitStaged, gitStats, gitBranch, gitLog, configFile, cachedConfig, historyVars,
                 clock, lastIndex, ticketLastIndex, aiVars>>

NextAnalyze == AnalyzeChanges \/ EditDiff

SpecAnalyze == InitAnalyze /\ [][NextAnalyze]_vars

\* suggestions.push({ id: suggestions.length + 1, label, message }) numbered from 2.
pushSuggestion_fromTwo(suggestions, label, message) ==
  Append(suggestions, [id |-> Len(suggestions) + 2, label |-> label, message |-> message])

\* suggestions.push({ id: suggestions.length + 1, label, message })
pushSuggestion(suggestions, label, message) ==
  Append(suggestions, [id |-> Len(suggestions) + 1, label |-> label, message |-> message])

\* What the generators read (g) and the mutable state they thread through a call (st):
\* li and tli the lastIndex of the two global pattern lists, h the history cache.
\* includeEmoji of the configuration, or else what the history says.
includeEmojiOf(g, config, h) ==
  IF Has(config.includeEmoji) THEN [value |-> Val(config.includeEmoji), h |-> h]
  ELSE projectUsesEmojis(config, h, g.now, g.commits)

\* The CommitMessage object.
messageOf(type, scope, description, body, includeEmoji, ticketInfo, isBreaking, breakingReasons, config) ==
  [type |-> type, scope |-> scope, description |-> description, body |-> body,
   full |-> buildFullMessage(type, scope, description, body, includeEmoji, ticketInfo,
                             isBreaking, breakingReasons, config),
   isBreaking |-> isBreaking]

\* Lines 709-722: the message of generateCommitMessage from what it gathered.
composeMessage(config, analysis, includeEmoji, ticketInfo) ==
  [message |-> messageOf(analysis.commitType, analysis.scope, analysis.description,
                         generateBody(analysis), includeEmoji.value, ticketInfo.ticket,
                         analysis.isBreakingChange, analysis.breakingChangeReasons, config),
   st |-> [li |-> analysis.li, tli |-> ticketInfo.tli, h |-> includeEmoji.h]]

generateCommitMessage(g, config, st) ==
  composeMessage(config,
                 analyzeChanges(g.staged, g.diff, g.stats, config, st.li),
                 includeEmojiOf(g, config, st.h),
                 detectTicketFromBranch(config, g.branch, st.tli))

pathsOf(stagedFiles) == [j \in DOMAIN stagedFiles |-> stagedFiles[j].path]

\* Lines 743-749: the scope of the analysis, or else the one the history suggests.
scopeOrSuggested(g, config, scope, h) ==
  IF Truthy(scope) THEN [value |-> scope, h |-> h]
  ELSE getSuggestedScope(pathsOf(g.staged), config, h, g.now, g.commits)

\* What every variant is built from, and the state after gathering it.
gathered(analysis, includeEmoji, body, ticketInfo, suggested) ==
  [analysis |-> analysis, includeEmoji |-> includeEmoji.value, body |-> body,
   ticketInfo |-> ticketInfo.ticket, scope |-> suggested.value,
   st |-> [li |-> analysis.li, tli |-> ticketInfo.tli, h |-> suggested.h]]

gather(g, config, analysis, includeEmoji, ticketInfo) ==
  gathered(analysis, includeEmoji, generateBody(analysis), ticketInfo,
           scopeOrSuggested(g, config, analysis.scope, includeEmoji.h))

\* Lines 729-749 (and again 921-941): the analysis and what every variant is built from.
prepareSuggestions(g, config, st) ==
  gather(g, config,
         analyzeChanges(g.staged, g.diff, g.stats, config, st.li),
         includeEmojiOf(g, config, st.h),
         detectTicketFromBranch(config, g.branch, st.tli))

\* A variant's message: the type, the emoji choice and the configuration are those of
\* the call.
variantMessage(p, config, scope, description, body, ticketInfo, isBreaking, breakingReasons) ==
  messageOf(p.analysis.commitType, scope, description, body, p.includeEmoji, ticketInfo,
            isBreaking, breakingReasons, config)

\* Suggestion 1.
withDefault(p, config) ==
  <<[id |-> 1,
     label |-> IF p.analysis.isBreakingChange THEN "Breaking Change" ELSE "Recommended",
     message |-> variantMessage(p, config, p.scope, p.analysis.description, p.body,
                                p.ticketInfo, p.analysis.isBreakingChange,
                                p.analysis.breakingChangeReasons)]>>

\* Suggestion 2, whose id the code writes as the literal 2.
withConcise(suggestions, p, config) ==
  IF Truthy(p.scope)
  THEN Append(suggestions,
              [id |-> 2, label |-> "Concise",
               message |-> variantMessage(p, config, None, p.analysis.description, p.body,
                                          p.ticketInfo, p.analysis.isBreakingChange,
                                          p.analysis.breakingChangeReasons)])
  ELSE suggestions

\* Suggestion 3.
withDetailed(suggestions, p, config, altDescription) ==
  IF altDescription # "" /\ altDescription # p.analysis.description
  THEN pushSuggestion(suggestions, "Detailed",
                      variantMessage(p, config, p.scope, altDescription, p.body, p.ticketInfo,
                                     p.analysis.isBreakingChange,
                                     p.analysis.breakingChangeReasons))
  ELSE suggestions

\* Suggestion 4.
withCompact(suggestions, p, config) ==
  IF Truthy(p.body)
  THEN pushSuggestion(suggestions, "Compact",
                      variantMessage(p, config, p.scope, p.analysis.description, None,
                                     p.ticketInfo, p.analysis.isBreakingChange,
                                     p.analysis.breakingChangeReasons))
  ELSE suggestions

\* Suggestion 5.
withNoTicket(suggestions, p, config) ==
  IF Has(p.ticketInfo)
  THEN pushSuggestion(suggestions, "No Ticket",
                      variantMessage(p, config, p.scope, p.analysis.description, p.body, None,
                                     p.analysis.isBreakingChange,
                                     p.analysis.breakingChangeReasons))
  ELSE suggestions

\* Suggestion 6.
withNoBreakingFlag(suggestions, p, config) ==
  IF p.analysis.isBreakingChange
  THEN pushSuggestion(suggestions, "No Breaking Flag",
                      variantMessage(p, config, p.scope, p.analysis.description, p.body,
                                     p.ticketInfo, FALSE, <<>>))
  ELSE suggestions

\* Lines 751-906: the variants, pushed in this order.
variantsOf(p, config) ==
  [list |->
     withNoBreakingFlag(
       withNoTicket(
         withCompact(
           withDetailed(withConcise(withDefault(p, config), p, config), p, config,
                        generateAlternativeDescription(p.analysis)),
           p, config),
         p, config),
       p, config),
   st |-> p.st]

generateMultipleSuggestions(g, config, st) == variantsOf(prepareSuggestions(g, config, st), config)

(***************************************************************************)
(* services/aiService.ts and generateSuggestionsWithAI                     *)
(***************************************************************************)

isEnabled(config) ==
  /\ Has(config.ai)
  /\ Val(config.ai).enabled = Some(TRUE)
  /\ Truthy(Val(config.ai).apiKey)

Providers == {"openai", "anthropic", "google"}

\* Whether AIService.generateDescription sends a request: the provider, openai when none
\* is configured, is one it knows; otherwise it returns null at once.
sendsRequest(config) ==
  LET provider == IF Truthy(Val(config.ai).provider) THEN Val(Val(config.ai).provider)
                  ELSE "openai"
  IN provider \in Providers

\* What the provider's answer can be: a failure (no connection, a status that is not ok,
\* a body that is no JSON), or a body whose content is text.
AIAnswers ==
  {[kind |-> "error", text |-> ""],
   [kind |-> "content", text |-> ""],
   [kind |-> "content", text |-> " Add Retry To The Client\n"]}

\* The content of the answer as callOpenAI returns it; null is None.
describe(content) == IF content # "" THEN Some(toLowerCase(content)) ELSE None

\* callOpenAI on a settled request: the description, null (None), or an exception.
aiResponse(answer) ==
  IF answer.kind = "error" THEN [threw |-> TRUE, description |-> None]
  ELSE [threw |-> FALSE, description |-> describe(trim(answer.text))]

\* suggestions.forEach((s, i) => { s.id = i + 1; })
renumber(list) == [j \in DOMAIN list |-> [list[j] EXCEPT !.id = j]]

\* The AI variant in the place of the first variant.
overwriteFirst(suggestions, description) ==
  [suggestions EXCEPT ![1].label = "AI Enhanced", ![1].message.description = description]

\* Lines 946-982 once the request has settled with r.
afterAwait(p, suggestions, r, config) ==
  IF ~r.threw /\ Truthy(r.description)
  THEN [threw |-> FALSE,
        list |-> renumber(<<[id |-> 0, label |-> "AI Enhanced",
                             message |-> variantMessage(p, config, p.scope, Val(r.description),
                                                        p.body, p.ticketInfo,
                                                        p.analysis.isBreakingChange,
                                                        p.analysis.breakingChangeReasons)]>>
                          \o suggestions)]
  ELSE [threw |-> FALSE, list |-> suggestions]

afterAwait_overwrite(p, suggestions, r, config) ==
  IF ~r.threw /\ Truthy(r.description)
  THEN [threw |-> FALSE, list |-> overwriteFirst(suggestions, Val(r.description))]
  ELSE [threw |-> FALSE, list |-> suggestions]

\* The rest of generateSuggestionsWithAI without its try/catch: the exception leaves it.
finishWithAI_noCatch(p, suggestions, answer, config) ==
  [threw |-> aiResponse(answer).threw, list |-> suggestions]

\* The rest with the AI variant put in the place of the first variant.
finishWithAI_overwrite(p, suggestions, answer, config) ==
  afterAwait_overwrite(p, suggestions, aiResponse(answer), config)

\* Lines 944-983: the rest of generateSuggestionsWithAI once the request has settled.
finishWithAI(p, suggestions, answer, config) ==
  afterAwait(p, suggestions, aiResponse(answer), config)

(***************************************************************************)
(* The calls                                                               *)
(***************************************************************************)

MaxComposeFiles == 1
MaxTicks == 1
TickMs == CACHE_TTL

ComposePaths == {j \in DOMAIN Paths : Paths[j] \in {"api/index.ts", "src/old.ts"}}
ComposeStaged == StagedLists(ComposePaths, MaxComposeFiles)

ComposeDiffs ==
  {"+  return a", "-export function oldApi() {}", "+// deprecated: removed old flag, removed stub"}

AIOn == Some([enabled |-> Some(TRUE), apiKey |-> Some("sk-test"), provider |-> None])

ComposeConfigFiles ==
  { <<>>,
    [ai |-> AIOn],
    [ai |-> AIOn,
     includeEmoji |-> Some(FALSE),
     breakingChangeDetection |-> Some([enabled |-> None, keywords |-> None,
                                       includeFooter |-> Some(FALSE)])],
    [ai |-> Some([enabled |-> Some(TRUE), apiKey |-> None, provider |-> None]),
     scopes |-> <<[pattern |-> "src/", scope |-> "core"]>>,
     templates |-> Some([default |-> Some("{type}({scope}): {emoji}  {description}"),
                         noScope |-> None])],
    [ai |-> Some([enabled |-> Some(TRUE), apiKey |-> Some("sk-test"), provider |-> Some("local")]),
     ticketLinking |-> Some([enabled |-> None, prefix |-> Some("Closes:"), patterns |-> None])] }

Init ==
  /\ gitStaged \in ComposeStaged
  /\ gitDiff \in ComposeDiffs
  /\ gitStats \in {SmallStats, LargeStats}
  /\ gitBranch \in Branches
  /\ gitLog \in {<<>>, PlainLog}
  /\ configFile \in ComposeConfigFiles
  /\ Fresh

Git ==
  [staged |-> gitStaged, diff |-> gitDiff, stats |-> gitStats, branch |-> gitBranch,
   commits |-> gitLog, now |-> clock]

Program ==
  [li |-> lastIndex, tli |-> ticketLastIndex, h |-> [cache |-> cachedAnalysis, ts |-> cacheTimestamp]]

Store(config, st) ==
  /\ cachedConfig' = Some(config)
  /\ lastIndex' = st.li
  /\ ticketLastIndex' = st.tli
  /\ cachedAnalysis' = st.h.cache
  /\ cacheTimestamp' = st.h.ts

\* A call of AnalyzerService.generateCommitMessage().
GenerateCommitMessage ==
  /\ pc = "idle"
  /\ \E config \in {effectiveConfig} :
       \E r \in {generateCommitMessage(Git, config, Program)} :
          /\ Store(config, r.st)
          /\ ret' = Some([op |-> "generateCommitMessage", value |-> r.message])
  /\ UNCHANGED <<gitVars, clock, aiVars>>

\* A call of AnalyzerService.generateMultipleSuggestions().
GenerateMultipleSuggestions ==
  /\ pc = "idle"
  /\ \E config \in {effectiveConfig} :
       \E r \in {generateMultipleSuggestions(Git, config, Program)} :
          /\ Store(config, r.st)
          /\ ret' = Some([op |-> "generateMultipleSuggestions", value |-> r.list])
  /\ UNCHANGED <<gitVars, clock, aiVars>>

Returns(list, outcome, threw) ==
  ret' = Some([op |-> "generateSuggestionsWithAI", value |-> list, outcome |-> outcome,
               threw |-> threw])

\* Lines 920-944: the second analysis inside the try block, up to the AI request; r is
\* what generateMultipleSuggestions returned.
TryAI(config, r, p) ==
  /\ Store(config, p.st)
  /\ IF sendsRequest(config)
     THEN /\ pc' = "awaiting"
          /\ pending' = Some([p |-> p, suggestions |-> r.list, config |-> config])
          /\ aiCalls' = 1
          /\ ret' = None
          /\ UNCHANGED aiAnswer
     ELSE /\ Returns(r.list, "noAnswer", FALSE)
          /\ aiCalls' = 0
          /\ UNCHANGED <<pc, pending, aiAnswer>>

\* A call of AnalyzerService.generateSuggestionsWithAI(useAI), up to its return or to the
\* await of the AI request.
GenerateSuggestionsWithAI ==
  /\ pc = "idle"
  /\ \E useAI \in BOOLEAN :
       \E config \in {effectiveConfig} :
         \E r \in {generateMultipleSuggestions(Git, config, Program)} :
            IF ~useAI \/ ~isEnabled(config)
            THEN /\ Store(config, r.st)
                 /\ Returns(r.list, IF ~useAI THEN "notRequested" ELSE "disabled", FALSE)
                 /\ aiCalls' = 0
                 /\ UNCHANGED <<pc, pending, aiAnswer>>
            ELSE \E p \in {prepareSuggestions(Git, config, r.st)} : TryAI(config, r, p)
  /\ UNCHANGED <<gitVars, clock>>

\* The provider answers the request, or the request fails.
AIResponds ==
  /\ pc = "awaiting" /\ aiAnswer = None
  /\ \E answer \in AIAnswers : aiAnswer' = Some(answer)
  /\ UNCHANGED <<gitVars, cachedConfig, historyVars, clock, lastIndex, ticketLastIndex, pc,
                 pending, aiCalls, ret>>

\* How the settled request ended.
outcomeOf(answer) ==
  IF answer.kind = "error" THEN "error"
  ELSE IF trim(answer.text) = "" THEN "empty" ELSE "description"

\* The suspended call resumes with the settled request and returns.
Resume ==
  /\ pc = "awaiting" /\ Has(aiAnswer)
  /\ \E w \in {Val(pending)} :
       \E r \in {finishWithAI(w.p, w.suggestions, Val(aiAnswer), w.config)} :
          Returns(r.list, outcomeOf(Val(aiAnswer)), r.threw)
  /\ pc' = "idle" /\ pending' = None /\ aiAnswer' = None
  /\ UNCHANGED <<gitVars, cachedConfig, historyVars, clock, lastIndex, ticketLastIndex, aiCalls>>

\* Time passes.
Tick ==
  /\ clock < MaxTicks * TickMs
  /\ clock' = clock + TickMs
  /\ ret' = None
  /\ UNCHANGED <<gitVars, cachedConfig, historyVars, lastIndex, ticketLastIndex, aiVars>>

Next ==
  \/ GenerateCommitMessage
  \/ GenerateMultipleSuggestions
  \/ GenerateSuggestionsWithAI
  \/ AIResponds
  \/ Resume
  \/ Tick

Spec == Init /\ [][Next]_vars

(***************************************************************************)
(* Classification and breaking-change detection                            *)
(***************************************************************************)

detectionEnabled ==
  ~(Has(effectiveConfig.breakingChangeDetection)
    /\ Val(effectiveConfig.breakingChangeDetection).enabled = Some(FALSE))

\* Rule i of the cascade as a condition on what was staged.
RuleHolds(i) ==
  LET tests == countFiles(gitStaged, "test")
      docs == countFiles(gitStaged, "docs")
      configs == countFiles(gitStaged, "config")
      source == countFiles(gitStaged, "source")
      f == Facts(gitDiff)
      onlyModified == \A j \in DOMAIN gitStaged : gitStaged[j].status = "M"
      newCode == f.hasNewExports \/ f.hasNewFunctions \/ f.hasNewClasses
  IN CASE i = 1 -> tests > 0 /\ source = 0 /\ docs = 0
       [] i = 2 -> docs > 0 /\ source = 0 /\ tests = 0
       [] i = 3 -> configs > 0 /\ source = 0 /\ tests = 0 /\ docs = 0
       [] i = 4 -> \/ \E j \in DOMAIN gitStaged : isStylePath(lowerPath(gitStaged[j].path))
                   \/ f.isFormattingChange /\ ~f.hasLogicChanges
       [] i = 5 -> f.perf
       [] i = 6 -> f.fix
       [] i = 7 -> \/ f.refactor
                   \/ /\ onlyModified /\ ~newCode
                      /\ f.addedLines > 0 /\ f.removedLines > 0
                      /\ \/ 10 * f.addedLines > 3 * f.removedLines /\ f.addedLines <= f.removedLines
                         \/ 10 * f.removedLines > 3 * f.addedLines /\ f.removedLines <= f.addedLines
       [] i = 8 -> \/ f.chore
                   \/ \E j \in DOMAIN gitStaged : chorePath(gitStaged[j].path)
       [] i = 9 -> \/ \E j \in DOMAIN gitStaged : gitStaged[j].status = "A"
                   \/ newCode \/ f.feat
       [] OTHER -> TRUE

RuleType(i) ==
  CASE i = 1 -> "test" [] i = 2 -> "docs" [] i = 3 -> "chore" [] i = 4 -> "style"
    [] i = 5 -> "perf" [] i = 6 -> "fix" [] i = 7 -> "refactor" [] i = 8 -> "chore"
    [] i = 9 -> "feat"
    [] OTHER -> IF countFiles(gitStaged, "source") = 0 THEN "chore"
                ELSE IF \A j \in DOMAIN gitStaged : gitStaged[j].status = "M" THEN "refactor"
                ELSE "feat"

FirstRule == minOf({i \in 1..10 : RuleHolds(i)})

\* C1: determineCommitType is an ordered cascade: the commit type analyzeChanges returns
\* is the type of the first rule, in the order test, docs, chore (config), style, perf,
\* fix, refactor, chore markers, feat, fallback, that the staged change satisfies; no
\* later rule changes it.
C1_FirstRuleDecides ==
  Returned("analyzeChanges") => Val(ret).value.commitType = RuleType(FirstRule)

\* A source change whose diff matches a perf and a fix keyword: perf came out.
C1_PerfBeforeFix ==
  /\ Returned("analyzeChanges")
  /\ FirstRule = 5 /\ RuleHolds(6)
  /\ Val(ret).value.commitType = "perf"

\* What analyzeChanges returns when no call was made before it.
firstCallResult ==
  analyzeChanges(gitStaged, gitDiff, gitStats, effectiveConfig, ZeroIndex)

\* C2: analyzeChanges is a function of the staged files, the diff, the stats and the
\* configuration: whatever calls were made before, it returns the commitType,
\* description, scope, isBreakingChange and breakingChangeReasons that a first call on
\* the same input returns (the lastIndex the earlier calls left in BREAKING_PATTERNS
\* changes nothing).
C2_Deterministic ==
  Returned("analyzeChanges") =>
    \A key \in {"commitType", "description", "scope", "isBreakingChange",
                "breakingChangeReasons"} :
       Val(ret).value[key] = firstCallResult[key]

\* A call on a diff in which a global pattern matched and was reported.
C2_CallAfterMatch ==
  /\ Returned("analyzeChanges")
  /\ \E j \in DOMAIN BREAKING_PATTERNS : Facts(gitDiff).breaking[j]
  /\ Val(ret).value.isBreakingChange
  /\ "Removed exported members" \in {Val(ret).value.breakingChangeReasons[j] :
                                       j \in DOMAIN Val(ret).value.breakingChangeReasons}

\* C3: detectBreakingChanges reports a breaking change exactly when it gives a reason,
\* gives no reason twice, and with breakingChangeDetection.enabled = false reports no
\* breaking change and no reason.
C3_BreakingIffReasons ==
  Returned("analyzeChanges") =>
    LET reasons == Val(ret).value.breakingChangeReasons
    IN /\ Val(ret).value.isBreakingChange <=> reasons # <<>>
       /\ \A j, q \in DOMAIN reasons : reasons[j] = reasons[q] => j = q
       /\ ~detectionEnabled => ~Val(ret).value.isBreakingChange /\ reasons = <<>>

\* A configured keyword listed twice and found in the diff gave one reason.
C3_RepeatedKeyword ==
  /\ Returned("analyzeChanges")
  /\ Has(effectiveConfig.breakingChangeDetection)
  /\ Val(effectiveConfig.breakingChangeDetection).keywords = Some(<<"stub", "removed", "stub">>)
  /\ includes(toLowerCase(gitDiff), "stub")
  /\ Val(ret).value.breakingChangeReasons
       = <<"Contains \"stub\" keyword", "Contains \"removed\" keyword">>

\* Detection switched off, on a diff that removes an export.
C3_Disabled ==
  /\ Returned("analyzeChanges")
  /\ ~detectionEnabled
  /\ Facts(gitDiff).breaking[1]
  /\ ~Val(ret).value.isBreakingChange

StructuralReasons ==
  {"Removed exported members", "Changed function signatures", "Removed class methods",
   "Major version change detected"}

\* The pattern families in the order export, function signature, class member, version,
\* as the positions of their patterns in BREAKING_PATTERNS, and the reason of each.  The
\* fifth pattern (removed interface/type property) is listed with no family of its own.
Families == << {1}, {2, 3}, {4}, {6} >>
FamilyReason ==
  <<"Removed exported members", "Changed function signatures", "Removed class methods",
    "Major version change detected">>

\* C4: with detection enabled, a diff with a removed line matching a structural pattern
\* is reported breaking with exactly one structural reason, the one of the first family
\* (export, function signature, class member, version) that has a matching pattern.
C4_OneStructuralReason ==
  (Returned("analyzeChanges") /\ detectionEnabled
     /\ \E j \in DOMAIN BREAKING_PATTERNS : Facts(gitDiff).breaking[j])
  => LET reasons == Val(ret).value.breakingChangeReasons
         structural == SelectSeq(reasons, LAMBDA r : r \in StructuralReasons)
         matching == {q \in DOMAIN Families : \E j \in Families[q] : Facts(gitDiff).breaking[j]}
     IN /\ Val(ret).value.isBreakingChange
        /\ Len(structural) = 1
        /\ matching # {} => structural[1] = FamilyReason[minOf(matching)]

\* A removed method signature without the function keyword matches the third pattern,
\* and the call reports nothing.
C4_SignatureUnreported ==
  /\ Returned("analyzeChanges") /\ detectionEnabled
  /\ gitDiff = "-foo(a) {"
  /\ Facts(gitDiff).breaking[3]
  /\ ~Val(ret).value.isBreakingChange

(***************************************************************************)
(* Rendering and the suggestion list                                       *)
(***************************************************************************)

\* What git and the configuration give now, analysed and gathered afresh.
currentSuggestions == generateMultipleSuggestions(Git, effectiveConfig, Program)
currentPrepared == prepareSuggestions(Git, effectiveConfig, Program)
currentTicket == detectTicketFromBranch(effectiveConfig, gitBranch, <<0, 0, 0>>).ticket

ReturnedList ==
  Returned("generateMultipleSuggestions") \/ Returned("generateSuggestionsWithAI")

\* Every message the last call rendered, with the label of its variant.
Rendered ==
  IF Returned("generateCommitMessage") THEN {[label |-> "", message |-> Val(ret).value]}
  ELSE IF ReturnedList
    THEN {[label |-> Val(ret).value[j].label, message |-> Val(ret).value[j].message] :
            j \in DOMAIN Val(ret).value}
  ELSE {}

footerEnabled ==
  ~(Has(effectiveConfig.breakingChangeDetection)
    /\ Val(effectiveConfig.breakingChangeDetection).includeFooter = Some(FALSE))

FooterBlock(reasons) == "\n\nBREAKING CHANGE: " \o join(reasons, "\n- ")

BodyText(r) == IF Truthy(r.message.body) THEN "\n\n" \o Val(r.message.body) ELSE ""

TicketText(r) ==
  IF Has(currentTicket) /\ r.label # "No Ticket"
  THEN "\n\n" \o Val(currentTicket).prefix \o " " \o Val(currentTicket).id
  ELSE ""

FirstLine(text) == split(text, "\n")[1]

\* C5: a rendered message holds the BREAKING CHANGE footer block exactly when its
\* variant is breaking, includeFooter is not false and there is a reason; the block is
\* the first reason on the footer line and every further reason on a "- " line of its
\* own, it follows the subject line and the body and is followed by the ticket footer
\* alone; the No Breaking Flag variant has neither the "!" marker nor the footer.
C5_FooterIffBreaking ==
  \A r \in Rendered :
    LET full == r.message.full
        reasons == firstCallResult.breakingChangeReasons
        wanted == r.message.isBreaking /\ footerEnabled /\ reasons # <<>>
        block == FooterBlock(reasons)
        at == indexOf(full, block)
    IN /\ includes(full, "BREAKING CHANGE: ") <=> wanted
       /\ wanted =>
            /\ at # 0
            /\ SubSeq(full, 1, at - 1) = FirstLine(full) \o BodyText(r)
            /\ SubSeq(full, at + Len(block), Len(full)) = TicketText(r)
       /\ r.label = "No Breaking Flag" =>
            ~includes(FirstLine(full), "!") /\ ~includes(full, "BREAKING CHANGE: ")

\* A breaking variant with two reasons, a body and a ticket: the footer block stands
\* between the body and the ticket footer.
C5_FooterBetweenBodyAndTicket ==
  \E r \in Rendered :
    /\ r.message.isBreaking
    /\ Len(firstCallResult.breakingChangeReasons) >= 2
    /\ Truthy(r.message.body)
    /\ TicketText(r) # ""
    /\ endsWith(r.message.full,
                BodyText(r) \o FooterBlock(firstCallResult.breakingChangeReasons)
                  \o TicketText(r))

\* C6: generateCommitMessage() returns the message (type, scope, description, body,
\* isBreaking, full) of the first element generateMultipleSuggestions() returns on the
\* input the call was made on.
C6_SingleEqualsFirst ==
  [][(Has(ret') /\ Val(ret').op = "generateCommitMessage")
       => Val(ret').value = currentSuggestions.list[1].message]_vars

\* A change whose paths give no scope while the history suggests one: the single message
\* has no scope, the first suggestion has the one of the history.
C6_ScopeOnlyInSuggestions ==
  /\ Returned("generateCommitMessage")
  /\ ~Truthy(Val(ret).value.scope)
  /\ Truthy(currentSuggestions.list[1].message.scope)
  /\ Val(ret).value.full # currentSuggestions.list[1].message.full

\* The rule-based default variant: labelled by the breaking verdict, with the primary
\* description.
isDefault(v) ==
  /\ v.label = (IF firstCallResult.isBreakingChange THEN "Breaking Change" ELSE "Recommended")
  /\ v.message.description = firstCallResult.description

ExpectedLabels ==
  <<IF firstCallResult.isBreakingChange THEN "Breaking Change" ELSE "Recommended">>
  \o (IF Truthy(currentPrepared.scope) THEN <<"Concise">> ELSE <<>>)
  \o (IF generateAlternativeDescription(firstCallResult) # firstCallResult.description
      THEN <<"Detailed">> ELSE <<>>)
  \o (IF Truthy(currentPrepared.body) THEN <<"Compact">> ELSE <<>>)
  \o (IF Has(currentTicket) THEN <<"No Ticket">> ELSE <<>>)
  \o (IF firstCallResult.isBreakingChange THEN <<"No Breaking Flag">> ELSE <<>>)

\* C8: generateMultipleSuggestions returns 1 to 6 variants: the default one, then
\* Concise iff a scope was resolved, Detailed iff the alternative description differs
\* from the primary one, Compact iff there is a body, No Ticket iff a ticket was
\* detected, No Breaking Flag iff the change is breaking, in this order; the variant at
\* position i has id i.
C8_VariantsInOrder ==
  Returned("generateMultipleSuggestions") =>
    /\ Len(Val(ret).value) \in 1..6
    /\ [j \in DOMAIN Val(ret).value |-> Val(ret).value[j].label] = ExpectedLabels
    /\ \A j \in DOMAIN Val(ret).value : Val(ret).value[j].id = j

\* All six variants at once.
C8_SixVariants ==
  /\ Returned("generateMultipleSuggestions")
  /\ [j \in DOMAIN Val(ret).value |-> Val(ret).value[j].label]
       = <<"Breaking Change", "Concise", "Detailed", "Compact", "No Ticket", "No Breaking Flag">>
  /\ Val(ret).value[6].id = 6

\* The outcomes of generateSuggestionsWithAI without a description of the AI.
FallbackOutcomes == {"notRequested", "disabled", "noAnswer", "error", "empty"}

\* C9: when the AI is not requested, not enabled, fails or gives no description,
\* generateSuggestionsWithAI returns the very list generateMultipleSuggestions returns
\* (variants, order, ids), having sent at most one AI request, and throws nothing.
C9_FallbackIsRuleBased ==
  (Returned("generateSuggestionsWithAI") /\ Val(ret).outcome \in FallbackOutcomes) =>
    /\ Val(ret).value = currentSuggestions.list
    /\ ~Val(ret).threw
    /\ aiCalls <= 1

\* The AI request failed after it was sent: the rule-based list came back.
C9_FailedRequest ==
  /\ Returned("generateSuggestionsWithAI")
  /\ Val(ret).outcome = "error"
  /\ aiCalls = 1
  /\ ~Val(ret).threw
  /\ Val(ret).value = currentSuggestions.list

(***************************************************************************)
(* Termination of generateSuggestionsWithAI                                *)
(***************************************************************************)

LiveStaged == {<<>>, <<[status |-> "M", path |-> "src/old.ts"]>>}

InitLive ==
  /\ gitStaged \in LiveStaged
  /\ gitDiff \in ComposeDiffs
  /\ gitStats = SmallStats
  /\ gitBranch \in Branches
  /\ gitLog = PlainLog
  /\ configFile \in {<<>>, [ai |-> AIOn]}
  /\ Fresh

\* The calls of generateSuggestionsWithAI alone.
NextLive == GenerateSuggestionsWithAI \/ AIResponds \/ Resume \/ Tick

\* The event loop runs the continuation of a settled request, and time passes.  Nothing
\* obliges the provider to answer, and the program sets no timer on the request.
SpecLive == InitLive /\ [][NextLive]_vars /\ WF_vars(Resume) /\ WF_vars(Tick)

\* C10: generateSuggestionsWithAI(true) with the AI enabled returns in the end, whatever
\* the provider does: a call that awaits the AI request leaves the await.
C10_EventuallyReturns ==
  (pc = "awaiting") ~> Returned("generateSuggestionsWithAI")

\* The request was sent, time has passed to the end, and the call still awaits.
C10_StillAwaiting ==
  /\ pc = "awaiting"
  /\ aiAnswer = None
  /\ aiCalls = 1
  /\ clock = MaxTicks * TickMs

(***************************************************************************)
(* The history cache                                                       *)
(***************************************************************************)

\* The times at which the program is called: both sides of one and of two CACHE_TTL.
HistoryTimes == {0, 1, CACHE_TTL - 1, CACHE_TTL, CACHE_TTL + 1, 2 * CACHE_TTL}

HistoryConfigFiles ==
  { <<>>,
    [learnFromHistory |-> Some([enabled |-> Some(FALSE)])],
    [learnFromHistory |-> Some([enabled |-> None])] }

\* The logs git reports after new commits.
LaterLogs == {<<>>, PlainLog, EmojiLog}

InitHistory ==
  /\ gitStaged = <<>>
  /\ gitDiff = "+  return a"
  /\ gitStats = SmallStats
  /\ gitBranch = "main"
  /\ gitLog \in Logs
  /\ configFile \in HistoryConfigFiles
  /\ Fresh

\* A call of HistoryService.analyzeCommitHistory().
AnalyzeCommitHistory ==
  /\ pc = "idle"
  /\ \E config \in {effectiveConfig} :
       \E r \in {analyzeCommitHistory(config, Program.h, clock, gitLog)} :
          /\ cachedConfig' = Some(config)
          /\ cachedAnalysis' = r.h.cache
          /\ cacheTimestamp' = r.h.ts
          /\ ret' = Some([op |-> "analyzeCommitHistory", value |-> r.analysis, read |-> r.read])
  /\ UNCHANGED <<gitVars, clock, lastIndex, ticketLastIndex, aiVars>>

\* A call of HistoryService.clearCache().
ClearCache ==
  /\ pc = "idle"
  /\ cachedAnalysis' = clearCache.cache
  /\ cacheTimestamp' = clearCache.ts
  /\ ret' = Some([op |-> "clearCache"])
  /\ UNCHANGED <<gitVars, cachedConfig, clock, lastIndex, ticketLastIndex, aiVars>>

\* Time passes between two calls.
Advance ==
  /\ \E t \in HistoryTimes : t > clock /\ clock' = t
  /\ ret' = None
  /\ UNCHANGED <<gitVars, cachedConfig, historyVars, lastIndex, ticketLastIndex, aiVars>>

\* Commits are made: git reports another log.
NewCommits ==
  /\ \E commits \in LaterLogs \ {gitLog} : gitLog' = commits
  /\ ret' = None
  /\ UNCHANGED <<hooks, gitStaged, gitDiff, gitStats, gitBranch, configFile, cachedConfig, historyVars,
                 clock, lastIndex, ticketLastIndex, aiVars>>

\* The configuration file is rewritten and ConfigService.clearCache() called.
EditConfig ==
  /\ \E file \in HistoryConfigFiles \ {configFile} : configFile' = file
  /\ cachedConfig' = None
  /\ ret' = None
  /\ UNCHANGED <<hooks, gitStaged, gitDiff, gitStats, gitBranch, gitLog, historyVars, clock, lastIndex,
                 ticketLastIndex, aiVars>>

NextHistory == AnalyzeCommitHistory \/ ClearCache \/ Advance \/ NewCommits \/ EditConfig

SpecHistory == InitHistory /\ [][NextHistory]_vars

learningEnabled ==
  ~(Has(effectiveConfig.learnFromHistory)
    /\ Val(effectiveConfig.learnFromHistory).enabled = Some(FALSE))

\* The step is a call of analyzeCommitHistory.
HistoryCall == Has(ret') /\ Val(ret').op = "analyzeCommitHistory"

\* C11: with learning enabled and a non-empty history, a call made less than 60000 ms
\* after the cached profile was computed returns that profile, reads no history and
\* leaves the cache as it is; a call made 60000 ms or more after it, or with no profile
\* cached (before the first computation, after clearCache), reads the history and puts
\* the profile of that history and the time of the call into the cache.  Between calls
\* only clearCache changes the cache.
C11_CacheLifecycle ==
  [][/\ (HistoryCall /\ learningEnabled /\ gitLog # <<>>) =>
          IF Has(cachedAnalysis) /\ clock - cacheTimestamp < 60000
          THEN /\ Val(ret').value = Val(cachedAnalysis)
               /\ ~Val(ret').read
               /\ UNCHANGED historyVars
          ELSE /\ Val(ret').read
               /\ Val(ret').value = performAnalysis(gitLog)
               /\ cachedAnalysis' = Some(performAnalysis(gitLog))
               /\ cacheTimestamp' = clock
     /\ (~HistoryCall /\ ~(Has(ret') /\ Val(ret').op = "clearCache")) => UNCHANGED historyVars
     /\ (Has(ret') /\ Val(ret').op = "clearCache") => cachedAnalysis' = None]_vars

\* A call 59999 ms after the profile was computed, on a history that has changed since:
\* the cached profile came back, unread.
C11_ServedFromCache ==
  /\ Returned("analyzeCommitHistory")
  /\ ~Val(ret).read
  /\ Has(cachedAnalysis)
  /\ clock - cacheTimestamp = 59999
  /\ gitLog # <<>>
  /\ Val(ret).value = Val(cachedAnalysis)
  /\ Val(ret).value # performAnalysis(gitLog)

\* C12: analyzeCommitHistory returns the default profile when learning is disabled,
\* whatever is cached, and when the history it reads is empty, and leaves the cache
\* value and timestamp unchanged in both cases; what it returns is the cached profile,
\* the profile computed from the history or the default, and what it stores is the
\* profile computed from a non-empty history only.
C12_DefaultLeavesCache ==
  [][HistoryCall =>
       /\ ~learningEnabled =>
            /\ Val(ret').value = getDefaultAnalysis
            /\ ~Val(ret').read
            /\ UNCHANGED historyVars
       /\ (learningEnabled /\ Val(ret').read /\ gitLog = <<>>) =>
            /\ Val(ret').value = getDefaultAnalysis
            /\ UNCHANGED historyVars
       /\ \/ Has(cachedAnalysis) /\ Val(ret').value = Val(cachedAnalysis)
          \/ gitLog # <<>> /\ Val(ret').value = performAnalysis(gitLog)
          \/ Val(ret').value = getDefaultAnalysis
       /\ ~UNCHANGED historyVars =>
            /\ gitLog # <<>>
            /\ cachedAnalysis' = Some(performAnalysis(gitLog))]_vars

\* Learning was switched off while a profile computed a moment ago is cached: the
\* default came back and the cache kept the profile.
C12_DisabledOverCache ==
  /\ Returned("analyzeCommitHistory")
  /\ ~learningEnabled
  /\ Has(cachedAnalysis) /\ clock - cacheTimestamp < CACHE_TTL
  /\ Val(cachedAnalysis) # getDefaultAnalysis
  /\ Val(ret).value = getDefaultAnalysis
  /\ Val(ret).value.commonVerbs = <<"add", "update", "fix", "remove", "refactor">>

\* The subjects of the log that start with an emoji, and with a conventional prefix.
emojiCount == Cardinality({j \in DOMAIN gitLog : test(EMOJI_PATTERN, gitLog[j])})
conventionalCount ==
  Cardinality({j \in DOMAIN gitLog : test(CONVENTIONAL_COMMIT_PATTERN, gitLog[j])})

MaxStaged == 3

FilePaths ==
  {j \in DOMAIN Paths :
     Paths[j] \in {"API/client.ts", "README.md", "api/index.ts", "package.json",
                   "src/api/users.ts", "src/lint/rules.ts", "src/old.ts", "src/styles/theme.ts"}}

FileStaged == StagedLists(FilePaths, MaxStaged)

\* Insertions and deletions of git diff --cached --shortstat, below and at 100 lines.
ChangedLines == {<<0, 0>>, <<80, 19>>, <<80, 20>>}

\* The stats of n staged entries: the shortstat counts every entry, or one less when an
\* entry is an unmerged path.
FileStats(n) ==
  {[filesChanged |-> k, insertions |-> l[1], deletions |-> l[2]] :
     k \in {n, IF n > 0 THEN n - 1 ELSE 0}, l \in ChangedLines}

ScopeConfigFiles ==
  { <<>>,
    [scopes |-> <<[pattern |-> "src/", scope |-> "core"], [pattern |-> ".ts", scope |-> "ts"]>>],
    [scopes |-> <<[pattern |-> "api", scope |-> "api"], [pattern |-> "src/", scope |-> "core"]>>] }

InitFiles ==
  /\ gitStaged \in FileStaged
  /\ gitDiff = ""
  /\ gitStats \in FileStats(Len(gitStaged))
  /\ gitBranch = "main"
  /\ gitLog = <<>>
  /\ configFile \in ScopeConfigFiles
  /\ Fresh

\* The developer unstages the last file of the list.
Unstage ==
  /\ pc = "idle"
  /\ gitStaged # <<>>
  /\ gitStaged' = SubSeq(gitStaged, 1, Len(gitStaged) - 1)
  /\ gitStats' = [gitStats EXCEPT !.filesChanged = Len(gitStaged) - 1]
  /\ ret' = None
  /\ UNCHANGED <<hooks, gitDiff, gitBranch, gitLog, configFile, cachedConfig, historyVars, clock,
                 lastIndex, ticketLastIndex, aiVars>>

NextFiles == AnalyzeChanges \/ Unstage

SpecFiles == InitFiles /\ [][NextFiles]_vars

\* The configured mappings whose pattern occurs in all, and in more than half, of the
\* staged paths.
MatchedPaths(mapping) ==
  {q \in DOMAIN gitStaged : includes(gitStaged[q].path, mapping.pattern)}

InAllPaths ==
  {j \in DOMAIN effectiveConfig.scopes :
     MatchedPaths(effectiveConfig.scopes[j]) = DOMAIN gitStaged}

InMostPaths ==
  {j \in DOMAIN effectiveConfig.scopes :
     2 * Cardinality(MatchedPaths(effectiveConfig.scopes[j])) > Len(gitStaged)}

FirstSegment == split(gitStaged[1].path, "/")

ExpectedScope ==
  IF gitStaged = <<>> THEN None
  ELSE IF InAllPaths # {} THEN Some(effectiveConfig.scopes[minOf(InAllPaths)].scope)
  ELSE IF InMostPaths # {} THEN Some(effectiveConfig.scopes[minOf(InMostPaths)].scope)
  ELSE IF Len(FirstSegment) > 1
          /\ toLowerCase(FirstSegment[1])
               \in {"api", "ui", "auth", "db", "core", "utils", "components", "services"}
    THEN Some(FirstSegment[1])
  ELSE None

\* C14: the scope analyzeChanges resolves is that of the first configured mapping whose
\* pattern occurs in all staged paths, else that of the first mapping whose pattern occurs
\* in more than half of them, else the first segment of the first path when the path has
\* a directory and the segment, in lower case, is in the allow-list, else undefined; an
\* empty staged list gives undefined.
C14_ScopePrecedence ==
  Returned("analyzeChanges") => Val(ret).value.scope = ExpectedScope

\* The first mapping matches two of three paths, the second all three: the second wins.
C14_AllBeatsEarlierMajority ==
  /\ Returned("analyzeChanges")
  /\ Len(gitStaged) = 3
  /\ Len(effectiveConfig.scopes) = 2
  /\ Cardinality(MatchedPaths(effectiveConfig.scopes[1])) = 2
  /\ InAllPaths = {2}
  /\ Val(ret).value.scope = Some("ts")

\* The only mappings that match, match one of two paths, and the first path has no
\* directory: no scope.
C14_HalfIsNotEnough ==
  /\ Returned("analyzeChanges")
  /\ Len(gitStaged) = 2
  /\ \E j \in DOMAIN effectiveConfig.scopes :
        Cardinality(MatchedPaths(effectiveConfig.scopes[j])) = 1
  /\ InMostPaths = {}
  /\ Val(ret).value.scope = None

\* The staged files of one status, and the phrase that names them.
StatusCount(status) == Cardinality({j \in DOMAIN gitStaged : gitStaged[j].status = status})

StatusPhrase(verb, n) ==
  IF n = 0 THEN <<>>
  ELSE <<verb \o " " \o numToString(n) \o (IF n > 1 THEN " files" ELSE " file")>>

\* C16: for two or more staged files with a source file among them, the description
\* names every status with files among added, modified and deleted, as "add N file(s)",
\* "update N file(s)", "remove N file(s)" in this order, joined with " and ".
C16_NamesEveryStatus ==
  (/\ Returned("analyzeChanges")
   /\ Len(gitStaged) >= 2
   /\ countFiles(gitStaged, "source") > 0
   /\ StatusCount("A") + StatusCount("M") + StatusCount("D") > 0)
  => Val(ret).value.description
       = join(StatusPhrase("add", StatusCount("A")) \o StatusPhrase("update", StatusCount("M"))
                \o StatusPhrase("remove", StatusCount("D")),
              " and ")

\* Two added files and a modified one: the description says "add 2 files" alone.
C16_UpdateDropped ==
  /\ Returned("analyzeChanges")
  /\ countFiles(gitStaged, "source") > 0
  /\ StatusCount("A") = 2 /\ StatusCount("M") = 1 /\ Len(gitStaged) = 3
  /\ Val(ret).value.description = "add 2 files"

\* C17: analyzeChanges on no staged file and an empty diff returns a result with the four
\* file-type counts 0, no scope, no breaking change and the description "update 0 files".
C17_EmptyChange ==
  (Returned("analyzeChanges") /\ gitStaged = <<>> /\ gitDiff = "") =>
    /\ Val(ret).value.filesAffected = [test |-> 0, docs |-> 0, config |-> 0, source |-> 0]
    /\ Val(ret).value.scope = None
    /\ ~Val(ret).value.isBreakingChange
    /\ Val(ret).value.description = "update 0 files"

\* The call on the empty change returned, with the description "update 0 file".
C17_UpdateZeroFile ==
  /\ Returned("analyzeChanges") /\ gitStaged = <<>> /\ gitDiff = ""
  /\ Val(ret).value.filesAffected = [test |-> 0, docs |-> 0, config |-> 0, source |-> 0]
  /\ Val(ret).value.scope = None
  /\ ~Val(ret).value.isBreakingChange
  /\ Val(ret).value.description = "update 0 file"

ChangedLineCount == gitStats.insertions + gitStats.deletions

\* C18 as the specification words it: isLargeChange is true exactly when the filesChanged
\* figure of the diff stats is 3 or more or insertions + deletions is 100 or more, and a
\* body is generated only for a large change.
C18_LargeIffFilesChanged ==
  Returned("analyzeChanges") =>
    /\ Val(ret).value.isLargeChange <=> (gitStats.filesChanged >= 3 \/ ChangedLineCount >= 100)
    /\ Has(generateBody(Val(ret).value)) => Val(ret).value.isLargeChange

\* C18 as the program computes it: isLargeChange is true exactly when the staged-file
\* list has 3 or more entries or insertions + deletions is 100 or more, whatever the
\* filesChanged figure is, and a body is generated only for a large change.
C18_LargeIffStagedFiles ==
  Returned("analyzeChanges") =>
    /\ Val(ret).value.isLargeChange <=> (Len(gitStaged) >= 3 \/ ChangedLineCount >= 100)
    /\ Has(generateBody(Val(ret).value)) => Val(ret).value.isLargeChange

\* Three staged entries of which the shortstat counts two, no changed line: the change
\* is large and has a body.
C18_ThreeEntriesTwoCounted ==
  /\ Returned("analyzeChanges")
  /\ Len(gitStaged) = 3 /\ gitStats.filesChanged = 2 /\ ChangedLineCount = 0
  /\ Val(ret).value.isLargeChange
  /\ Has(generateBody(Val(ret).value))

\* Two files with 99 changed lines are not large, one file with 100 is.
C18_AtOneHundredLines ==
  /\ Returned("analyzeChanges")
  /\ Len(gitStaged) = 1 /\ gitStats.filesChanged = 1 /\ ChangedLineCount = 100
  /\ Val(ret).value.isLargeChange

StyleExtensions == {".css", ".scss", ".sass", ".less", ".styl"}

hasStyleExtension(p) == \E x \in StyleExtensions : endsWith(toLowerCase(p), x)

\* One or more staged files, each Added, of category source, without a style extension.
AddedSourceOnly ==
  /\ gitStaged # <<>>
  /\ \A j \in DOMAIN gitStaged :
        /\ gitStaged[j].status = "A"
        /\ detectFileType(gitStaged[j].path) = "source"
        /\ ~hasStyleExtension(gitStaged[j].path)

\* C19: when the diff is empty and every staged file is an Added source file without a
\* style-file extension, the commit type is feat whatever the paths are, and with a
\* single such file the description is "add " followed by the file name.
C19_AddedSourceIsFeat ==
  (Returned("analyzeChanges") /\ gitDiff = "" /\ AddedSourceOnly) =>
    /\ Val(ret).value.commitType = "feat"
    /\ Len(gitStaged) = 1 =>
          Val(ret).value.description = "add " \o getFileName(gitStaged[1].path)

\* A new source file under a styles/ directory makes the commit a style commit.
C19_StylesDirectory ==
  /\ Returned("analyzeChanges") /\ gitDiff = "" /\ AddedSourceOnly
  /\ Len(gitStaged) = 1 /\ gitStaged[1].path = "src/styles/theme.ts"
  /\ Val(ret).value.commitType = "style"
  /\ Val(ret).value.description = "add theme.ts"

\* A new source file under a lint/ directory makes the commit a chore commit.
C19_LintDirectory ==
  /\ Returned("analyzeChanges") /\ gitDiff = "" /\ AddedSourceOnly
  /\ Len(gitStaged) = 1 /\ gitStaged[1].path = "src/lint/rules.ts"
  /\ Val(ret).value.commitType = "chore"

\* A new source file elsewhere is a feat commit named after the file.
C19_PlainSourceIsFeat ==
  /\ Returned("analyzeChanges") /\ gitDiff = "" /\ AddedSourceOnly
  /\ Len(gitStaged) = 1 /\ gitStaged[1].path = "src/api/users.ts"
  /\ Val(ret).value.commitType = "feat"
  /\ Val(ret).value.description = "add users.ts"

(***************************************************************************)
(* The scope of a message                                                  *)
(***************************************************************************)

\* Configuration files with a scope mapping; a mapping is two strings of the JSON file,
\* which the program reads as they are.
MappingConfigFiles ==
  { <<>>,
    [scopes |-> <<[pattern |-> "src/", scope |-> "core"]>>],
    [scopes |-> <<[pattern |-> "src/", scope |-> ""]>>] }

InitScopes ==
  /\ gitStaged \in ComposeStaged
  /\ gitDiff = "+  return a"
  /\ gitStats = SmallStats
  /\ gitBranch = "main"
  /\ gitLog \in {<<>>, PlainLog, ParenLog}
  /\ configFile \in MappingConfigFiles
  /\ Fresh

NextScopes == GenerateCommitMessage \/ GenerateMultipleSuggestions \/ Tick

SpecScopes == InitScopes /\ [][NextScopes]_vars

\* C15: the scope of the message generateCommitMessage returns, and of every variant
\* generateMultipleSuggestions returns, is undefined or a non-empty string.
C15_ScopeNeverEmpty ==
  \A r \in Rendered : r.message.scope = None \/ Val(r.message.scope) # ""

\* A mapping with the scope "" matches the staged path: generateCommitMessage returns
\* the scope "".
C15_EmptyScopeFromMapping ==
  /\ Returned("generateCommitMessage")
  /\ effectiveConfig.scopes = <<[pattern |-> "src/", scope |-> ""]>>
  /\ Val(ret).value.scope = Some("")

\* The history has the scope "(())", learned as "": the first variant has the scope "".
C15_EmptyScopeFromHistory ==
  /\ Returned("generateMultipleSuggestions")
  /\ gitLog = ParenLog
  /\ Val(ret).value[1].message.scope = Some("")

(***************************************************************************)
(* The category of a path                                                  *)
(***************************************************************************)

MaxTyped == 2

TypedStaged == StagedLists(DOMAIN Paths, MaxTyped)

InitTypes ==
  /\ gitStaged \in TypedStaged
  /\ gitDiff = ""
  /\ gitStats = [filesChanged |-> Len(gitStaged), insertions |-> 0, deletions |-> 0]
  /\ gitBranch = "main"
  /\ gitLog = <<>>
  /\ configFile = <<>>
  /\ Fresh

\* const fileType = detectFileType(file.path), for one file of the staged list.
DetectFileType ==
  /\ pc = "idle"
  /\ \E j \in DOMAIN gitStaged :
       ret' = Some([op |-> "detectFileType", file |-> gitStaged[j].path,
                    value |-> detectFileType(gitStaged[j].path)])
  /\ UNCHANGED <<gitVars, configFile, cachedConfig, historyVars, clock, lastIndex,
                 ticketLastIndex, aiVars>>

NextTypes == DetectFileType \/ Unstage

SpecTypes == InitTypes /\ [][NextTypes]_vars

\* Some pattern of the given category matches the path.
MatchesType(filePath, type) ==
  \E j \in DOMAIN filePatterns :
    filePatterns[j].type = type /\ test(filePatterns[j].pattern, filePath)

\* The category of the first pattern, in the order test, docs, config, that matches.
FirstCategory(filePath) ==
  IF MatchesType(filePath, "test") THEN "test"
  ELSE IF MatchesType(filePath, "docs") THEN "docs"
  ELSE IF MatchesType(filePath, "config") THEN "config"
  ELSE "source"

\* The names of the directories of a path: every component but the file name.
DirectoryComponents(filePath) ==
  LET parts == split(filePath, "/")
  IN {parts[j] : j \in 1..(Len(parts) - 1)}

TestDirectories == {"test", "tests", "__tests__"}

DocsDirectories == {"doc", "docs"}

\* C20: detectFileType gives a path the category of the first matching pattern in the
\* order test, docs, config, with source as default; a path with a directory component
\* named test, tests or __tests__ is test, and one with a directory component named doc
\* or docs that no test pattern matches is docs, wherever the directory is in the path,
\* the first component included.
C20_CategoryOfPath ==
  Returned("detectFileType") =>
    LET filePath == Val(ret).file
        type == Val(ret).value
    IN /\ type = FirstCategory(filePath)
       /\ DirectoryComponents(filePath) \cap TestDirectories # {} => type = "test"
       /\ (/\ DirectoryComponents(filePath) \cap DocsDirectories # {}
           /\ ~MatchesType(filePath, "test")) => type = "docs"

\* The category is that of the first matching pattern, in every call.
C20_FirstPatternWins ==
  Returned("detectFileType") => Val(ret).value = FirstCategory(Val(ret).file)

\* tests/unit.ts, whose first component is the directory tests, is classified source.
C20_LeadingTestsDirectory ==
  /\ Returned("detectFileType")
  /\ Val(ret).file = "tests/unit.ts"
  /\ Val(ret).value = "source"

\* docs/guide.ts, whose first component is the directory docs, is classified source.
C20_LeadingDocsDirectory ==
  /\ Returned("detectFileType")
  /\ Val(ret).file = "docs/guide.ts"
  /\ Val(ret).value = "source"

\* The same directories below another one are recognised, and test comes before docs.
C20_InnerDirectories ==
  /\ Returned("detectFileType")
  /\ Val(ret).file = "src/tests/notes.md"
  /\ Val(ret).value = "test"
  /\ detectFileType("src/docs/config.json") = "docs"
  /\ detectFileType("src/tests/unit.ts") = "test"
  /\ detectFileType("src/docs/guide.ts") = "docs"

(***************************************************************************)
(* The ticket reference                                                    *)
(***************************************************************************)

\* new RegExp(p, 'g') of 'CUSTOM-(\d+)', '#\d+', '[A-Z]+-\d+' and 'T(\d*)'.
CustomTicket == [regex |-> RegExp(Cat(<<Lit("CUSTOM-"), Plus(D)>>), "g"), group |-> 7]
HashTicket == [regex |-> RegExp(Cat(<<Lit("#"), Plus(D)>>), "g"), group |-> -1]
KeyTicket == [regex |-> RegExp(Cat(<<Plus(Cls(UpperChars)), Lit("-"), Plus(D)>>), "g"), group |-> -1]
LooseTicket == [regex |-> RegExp(Cat(<<Lit("T"), Star(D)>>), "g"), group |-> 1]

TicketConfigFiles ==
  { <<>>,
    [ai |-> AIOn,
     ticketLinking |-> Some([enabled |-> Some(FALSE), prefix |-> None, patterns |-> None])],
    [ai |-> AIOn,
     ticketLinking |-> Some([enabled |-> None, prefix |-> Some("Closes:"), patterns |-> None])],
    [ticketLinking |-> Some([enabled |-> Some(TRUE), prefix |-> Some("Fixes:"),
                             patterns |-> Some(<<CustomTicket>>)])],
    [ticketLinking |-> Some([enabled |-> None, prefix |-> Some(""),
                             patterns |-> Some(<<HashTicket, KeyTicket>>)])],
    [ticketLinking |-> Some([enabled |-> None, prefix |-> None, patterns |-> Some(<<>>)])],
    [ticketLinking |-> Some([enabled |-> None, prefix |-> None,
                             patterns |-> Some(<<LooseTicket>>)])] }

InitTickets ==
  /\ gitStaged \in ComposeStaged
  /\ gitDiff \in {"+  return a", "-export function oldApi() {}"}
  /\ gitStats \in {SmallStats, LargeStats}
  /\ gitBranch \in TicketBranches
  /\ gitLog = <<>>
  /\ configFile \in TicketConfigFiles
  /\ Fresh

SpecTickets == InitTickets /\ [][Next]_vars

ticketLinkingOf == effectiveConfig.ticketLinking

linkingDisabled == Has(ticketLinkingOf) /\ Val(ticketLinkingOf).enabled = Some(FALSE)

\* The patterns in the order they are tried, each with the place of its first group.
TicketPatterns ==
  IF Has(ticketLinkingOf) /\ Has(Val(ticketLinkingOf).patterns)
  THEN Val(Val(ticketLinkingOf).patterns)
  ELSE [j \in DOMAIN DEFAULT_TICKET_PATTERNS |->
          [regex |-> DEFAULT_TICKET_PATTERNS[j], group |-> TicketGroupStart[j]]]

MatchingPatterns == {j \in DOMAIN TicketPatterns : test(TicketPatterns[j].regex, gitBranch)}

ticketExpected == ~linkingDisabled /\ gitBranch # "" /\ MatchingPatterns # {}

\* The id the first matching pattern gives: its first group, else the whole match.
ExpectedId ==
  LET j == CHOOSE j \in MatchingPatterns : \A k \in MatchingPatterns : j <= k
      m == execFrom(TicketPatterns[j].regex, gitBranch, 1)
      whole == SubSeq(gitBranch, m[1], m[2] - 1)
      first == IF TicketPatterns[j].group >= 0
               THEN SubSeq(gitBranch, m[1] + TicketPatterns[j].group, m[2] - 1) ELSE ""
  IN IF first # "" THEN first ELSE whole

\* The configured prefix, "Refs:" when none (or an empty one) is configured.
ExpectedPrefix ==
  IF Has(ticketLinkingOf) /\ Truthy(Val(ticketLinkingOf).prefix)
  THEN Val(Val(ticketLinkingOf).prefix) ELSE "Refs:"

\* C21: when ticket linking is not disabled and a pattern matches the branch name (the
\* first pattern, in configured or default order, that matches; the id is its first
\* capture group, else the whole match), every emitted variant but "No Ticket" ends with
\* a blank line and "<prefix> <id>", a returned list has a "No Ticket" variant and that
\* variant has no such footer; when linking is disabled, the branch is unknown or no
\* pattern matches, no variant has a ticket footer and there is no "No Ticket" variant.
C21_TicketFooter ==
  IF ticketExpected
  THEN LET footer == "\n\n" \o ExpectedPrefix \o " " \o ExpectedId
       IN /\ \A r \in Rendered : r.label # "No Ticket" <=> endsWith(r.message.full, footer)
          /\ ReturnedList => \E r \in Rendered : r.label = "No Ticket"
  ELSE \A r \in Rendered :
         /\ r.label # "No Ticket"
         /\ ~includes(r.message.full, "\n\n" \o ExpectedPrefix \o " ")

\* Two default patterns match feature/ABC-123-fix-#45: the first one gives the id.
C21_FirstPatternGivesId ==
  /\ Returned("generateMultipleSuggestions")
  /\ gitBranch = "feature/ABC-123-fix-#45" /\ configFile = <<>>
  /\ \E r \in Rendered : r.label = "No Ticket"
  /\ endsWith(Val(ret).value[1].message.full, "\n\nRefs: ABC-123")

\* The configured patterns are tried in their order and the id is the first group.
C21_ConfiguredPatterns ==
  /\ Returned("generateCommitMessage")
  /\ \/ /\ gitBranch = "feature/CUSTOM-999-task"
        /\ TicketPatterns = <<CustomTicket>>
        /\ endsWith(Val(ret).value.full, "\n\nFixes: 999")
     \/ /\ gitBranch = "feature/ABC-123-fix-#45"
        /\ TicketPatterns = <<HashTicket, KeyTicket>>
        /\ endsWith(Val(ret).value.full, "\n\nRefs: #45")

\* The AI Enhanced variant carries the ticket footer as well.
C21_AIEnhancedFooter ==
  /\ Returned("generateSuggestionsWithAI")
  /\ Val(ret).value[1].label = "AI Enhanced"
  /\ endsWith(Val(ret).value[1].message.full, "\n\nCloses: 456")

\* Linking disabled on a branch that names a ticket: no footer, no "No Ticket" variant.
C21_LinkingDisabled ==
  /\ ReturnedList
  /\ linkingDisabled /\ gitBranch = "feature/ABC-123-fix-#45"
  /\ \A r \in Rendered : r.label # "No Ticket" /\ ~includes(r.message.full, "Refs:")

(***************************************************************************)
(* The subject line                                                        *)
(***************************************************************************)

CoreScopes == <<[pattern |-> "src/", scope |-> "core"]>>

\* A templates object of the configuration file with the two entries the program reads.
Templates(default, noScope) == Some([default |-> default, noScope |-> noScope])

\* Configuration files without templates, with a templates object that has no default
\* and no noScope entry, and with templates of the user.
TemplateConfigFiles ==
  { [scopes |-> CoreScopes],
    [scopes |-> CoreScopes, includeEmoji |-> Some(FALSE)],
    [scopes |-> CoreScopes, templates |-> Templates(None, None)],
    [scopes |-> CoreScopes, templates |-> Templates(None, None), includeEmoji |-> Some(FALSE)],
    [scopes |-> CoreScopes,
     templates |-> Templates(Some("{emoji} {type}({scope}): {description}"),
                             Some("{emoji} {type}: {description}"))],
    [scopes |-> CoreScopes, includeEmoji |-> Some(FALSE),
     templates |-> Templates(Some("[{scope}]  {type}: {description} {emoji}"),
                             Some(" {type} - {description} ({scope}) "))],
    [scopes |-> CoreScopes,
     templates |-> Templates(Some("{type}({scope}): {description} [{type}]"),
                             Some("{type}: {description}"))] }

InitTemplates ==
  /\ gitStaged \in ComposeStaged
  /\ gitDiff \in {"+  return a", "-export function oldApi() {}"}
  /\ gitStats \in {SmallStats, LargeStats}
  /\ gitBranch = "main"
  /\ gitLog \in {<<>>, PlainLog}
  /\ configFile \in TemplateConfigFiles
  /\ Fresh

SpecTemplates == InitTemplates /\ [][NextScopes]_vars

\* The template string of the user that applies to a message with this scope, if any.
UserTemplate(scope) ==
  LET templates == effectiveConfig.templates
  IN IF ~Has(templates) THEN None
     ELSE IF Truthy(scope) THEN (IF Truthy(Val(templates).default) THEN Val(templates).default ELSE None)
     ELSE (IF Truthy(Val(templates).noScope) THEN Val(templates).noScope ELSE None)

\* Whether the messages of the last call carry the emoji.
EmojiIncluded == includeEmojiOf(Git, effectiveConfig, Program.h).value

\* emoji and a space, type, (scope), !, ": " and the description.
PlainSubject(msg) ==
  (IF EmojiIncluded THEN COMMIT_EMOJIS[msg.type] \o " " ELSE "")
  \o msg.type
  \o (IF Truthy(msg.scope) THEN "(" \o Val(msg.scope) \o ")" ELSE "")
  \o (IF msg.isBreaking THEN "!" ELSE "")
  \o ": " \o msg.description

\* C22: whenever no template string of the user applies (no templates, or a templates
\* object without the default / noScope entry), the first line of every rendered message
\* is the emoji and a space (if included), the type, "(scope)" (if present), "!" (if
\* breaking), ": " and the description: "type(scope)!: description" when breaking with
\* a scope.
C22_DefaultSubject ==
  \A r \in Rendered :
    ~Has(UserTemplate(r.message.scope)) => FirstLine(r.message.full) = PlainSubject(r.message)

\* A templates object without a default entry, a scope and a breaking change: the "!"
\* stands before the scope.
C22_BangBeforeScope ==
  /\ Returned("generateCommitMessage")
  /\ effectiveConfig.templates = Templates(None, None)
  /\ Val(ret).value.isBreaking
  /\ Val(ret).value.scope = Some("core")
  /\ includes(FirstLine(Val(ret).value.full), Val(ret).value.type \o "!(core): ")

\* Without a templates object the same message has the "!" after the scope.
C22_BangAfterScope ==
  /\ Returned("generateCommitMessage")
  /\ ~Has(effectiveConfig.templates)
  /\ Val(ret).value.isBreaking
  /\ Val(ret).value.scope = Some("core")
  /\ FirstLine(Val(ret).value.full) = PlainSubject(Val(ret).value)
  /\ includes(FirstLine(Val(ret).value.full), Val(ret).value.type \o "(core)!: ")

\* Every occurrence of t in s replaced by r.
RECURSIVE replaceEvery(_, _, _)
replaceEvery(s, t, r) ==
  LET i == indexOf(s, t)
  IN IF i = 0 THEN s
     ELSE SubSeq(s, 1, i - 1) \o r \o replaceEvery(SubSeq(s, i + Len(t), Len(s)), t, r)

Placeholders == {"{emoji}", "{type}", "{scope}", "{description}"}

\* The template with every placeholder substituted and the whitespace normalised.
SubstitutedSubject(template, msg) ==
  LET emoji == IF EmojiIncluded THEN COMMIT_EMOJIS[msg.type] ELSE ""
      type == msg.type \o (IF msg.isBreaking THEN "!" ELSE "")
      filled == replaceEvery(replaceEvery(replaceEvery(template, "{emoji}", emoji),
                                          "{type}", type),
                             "{description}", msg.description)
      scoped == IF Truthy(msg.scope) THEN replaceEvery(filled, "{scope}", Val(msg.scope))
                ELSE replaceEvery(replaceEvery(filled, "({scope})", ""), "{scope}", "")
  IN tidy(scoped)

NormalisedSpace(s) ==
  /\ s = "" \/ (CharAt(s, 1) \notin SpaceChars /\ CharAt(s, Len(s)) \notin SpaceChars)
  /\ \A j \in 1..(Len(s) - 1) : ~(CharAt(s, j) \in SpaceChars /\ CharAt(s, j + 1) \in SpaceChars)

\* C23: with a template of the user (templates.default when there is a scope,
\* templates.noScope otherwise) the subject line is that template with every occurrence
\* of {emoji}, {type}, {scope} and {description} substituted ({type} with "!" when
\* breaking, {emoji} by nothing when the emoji is off, "({scope})" and "{scope}" removed
\* when there is no scope); it contains none of the placeholders, has no leading or
\* trailing whitespace and no run of more than one whitespace character.
C23_TemplateSubstituted ==
  \A r \in Rendered :
    Has(UserTemplate(r.message.scope)) =>
      LET subject == FirstLine(r.message.full)
      IN /\ subject = SubstitutedSubject(Val(UserTemplate(r.message.scope)), r.message)
         /\ \A ph \in Placeholders : ~includes(subject, ph)
         /\ NormalisedSpace(subject)

\* A template that names {type} twice: the second occurrence stays in the subject.
C23_SecondOccurrenceLeft ==
  /\ Returned("generateCommitMessage")
  /\ UserTemplate(Val(ret).value.scope) = Some("{type}({scope}): {description} [{type}]")
  /\ endsWith(FirstLine(Val(ret).value.full), " [{type}]")
  /\ NormalisedSpace(FirstLine(Val(ret).value.full))

\* A template with each placeholder once, the emoji off: substituted and normalised.
C23_EachPlaceholderOnce ==
  /\ Returned("generateCommitMessage")
  /\ UserTemplate(Val(ret).value.scope) = Some("[{scope}]  {type}: {description} {emoji}")
  /\ FirstLine(Val(ret).value.full)
       = "[core] " \o Val(ret).value.type \o (IF Val(ret).value.isBreaking THEN "!" ELSE "")
         \o ": " \o Val(ret).value.description

\* The subject is whitespace-normalised whatever the template is.
C23_WhitespaceNormalised ==
  \A r \in Rendered :
    Has(UserTemplate(r.message.scope)) => NormalisedSpace(FirstLine(r.message.full))

(***************************************************************************)
(* services/configService.ts: finding, reading and caching the file        *)
(***************************************************************************)

CONFIG_FILES == <<".commitgenierc.json", ".commitgenierc", "commitgenie.config.json">>

\* path.join(dir, filename)
pathJoin(dir, filename) == dir \o "/" \o filename

\* for (const filename of CONFIG_FILES) if (fs.existsSync(fullPath)) ... break
firstConfigIn(dir, files) ==
  LET found == {j \in DOMAIN CONFIG_FILES : pathJoin(dir, CONFIG_FILES[j]) \in DOMAIN files}
  IN IF found = {} THEN None ELSE Some(pathJoin(dir, CONFIG_FILES[minOf(found)]))

\* The configPath of loadConfig: the git root first (when GitService.getGitRoot() does
\* not throw), then the current directory.
findConfigPath(disk) ==
  LET inRoot == IF Has(disk.gitRoot) THEN firstConfigIn(Val(disk.gitRoot), disk.files) ELSE None
  IN IF Has(inRoot) THEN inRoot ELSE firstConfigIn(disk.cwd, disk.files)

\* The texts a configuration file can hold.
ConfigTexts ==
  {"{ invalid json }", "null", "{\"defaultType\":\"chore\"}",
   "{\"scopes\":[{\"pattern\":\"src/api\",\"scope\":\"api\"}],\"defaultType\":\"fix\"}",
   "{\"includeEmoji\":false,\"maxMessageLength\":50}"}

\* JSON.parse of those texts: an exception, or the keys ...userConfig spreads.
JSONparse(text) ==
  CASE text = "null" -> [threw |-> FALSE, value |-> <<>>]
    [] text = "{\"defaultType\":\"chore\"}" ->
         [threw |-> FALSE, value |-> [defaultType |-> "chore"]]
    [] text = "{\"scopes\":[{\"pattern\":\"src/api\",\"scope\":\"api\"}],\"defaultType\":\"fix\"}" ->
         [threw |-> FALSE,
          value |-> [scopes |-> <<[pattern |-> "src/api", scope |-> "api"]>>, defaultType |-> "fix"]]
    [] text = "{\"includeEmoji\":false,\"maxMessageLength\":50}" ->
         [threw |-> FALSE, value |-> [includeEmoji |-> Some(FALSE), maxMessageLength |-> 50]]
    [] OTHER -> [threw |-> TRUE, value |-> <<>>]

\* fs.readFileSync(configPath, 'utf-8') and JSON.parse(content); a file that cannot be
\* read holds None.
readUserConfig(disk, configPath) ==
  IF Has(disk.files[configPath]) THEN JSONparse(Val(disk.files[configPath]))
  ELSE [threw |-> TRUE, value |-> <<>>]

loaded(config, configPath, threw) ==
  [value |-> config, cache |-> Some(config), searched |-> TRUE, read |-> configPath,
   threw |-> threw]

\* loadConfig whose read and parse are not inside a try block.
loadConfigFromDisk_noCatch(cache, disk) ==
  IF Has(cache)
  THEN [value |-> Val(cache), cache |-> cache, searched |-> FALSE, read |-> None, threw |-> FALSE]
  ELSE LET configPath == findConfigPath(disk)
       IN IF ~Has(configPath) THEN loaded(DEFAULT_CONFIG, None, FALSE)
          ELSE LET r == readUserConfig(disk, Val(configPath))
               IN IF r.threw
                  THEN [value |-> DEFAULT_CONFIG, cache |-> None, searched |-> TRUE,
                        read |-> configPath, threw |-> TRUE]
                  ELSE loaded(mergeConfig(r.value), configPath, FALSE)

\* loadConfig that looks for the file in every call.
loadConfigFromDisk_noCache(cache, disk) ==
  LET configPath == findConfigPath(disk)
  IN IF ~Has(configPath) THEN loaded(DEFAULT_CONFIG, None, FALSE)
     ELSE LET r == readUserConfig(disk, Val(configPath))
          IN IF r.threw THEN loaded(DEFAULT_CONFIG, configPath, FALSE)
             ELSE loaded(mergeConfig(r.value), configPath, FALSE)

\* ConfigService.loadConfig on the files of the disk: the value returned, the cache
\* afterwards, whether the git root and the files were looked up, the file read, and
\* whether an exception left the call.
loadConfigFromDisk(cache, disk) ==
  IF Has(cache)
  THEN [value |-> Val(cache), cache |-> cache, searched |-> FALSE, read |-> None, threw |-> FALSE]
  ELSE LET configPath == findConfigPath(disk)
       IN IF ~Has(configPath) THEN loaded(DEFAULT_CONFIG, None, FALSE)
          ELSE LET r == readUserConfig(disk, Val(configPath))
               IN IF r.threw THEN loaded(DEFAULT_CONFIG, configPath, FALSE)
                  ELSE loaded(mergeConfig(r.value), configPath, FALSE)

MaxConfigFiles == 2

ProjectPaths ==
  {"/project/.commitgenierc.json", "/project/commitgenie.config.json",
   "/project/src/.commitgenierc.json", "/project/src/.commitgenierc"}

FileContents == {None} \cup {Some(t) : t \in ConfigTexts}

\* The disks: getGitRoot() returns /project or throws, the current directory is the
\* root or a directory below it, and at most MaxConfigFiles configuration files exist.
Disks ==
  UNION {{[gitRoot |-> g, cwd |-> c, files |-> f] :
            g \in {None, Some("/project")}, c \in {"/project", "/project/src"},
            f \in [ps -> FileContents]}
         : ps \in {q \in SUBSET ProjectPaths : Cardinality(q) <= MaxConfigFiles}}

\* In this specification configFile is the disk the configuration is looked up on.
InitConfig ==
  /\ gitStaged = <<>>
  /\ gitDiff = ""
  /\ gitStats = [filesChanged |-> 0, insertions |-> 0, deletions |-> 0]
  /\ gitBranch = "main"
  /\ gitLog = <<>>
  /\ configFile \in Disks
  /\ Fresh

ConfigCall(op) ==
  /\ pc = "idle"
  /\ \E r \in {loadConfigFromDisk(cachedConfig, configFile)} :
       /\ cachedConfig' = r.cache
       /\ ret' = Some([op |-> op, value |-> r.value, searched |-> r.searched, read |-> r.read,
                       threw |-> r.threw])
  /\ UNCHANGED <<gitVars, historyVars, clock, lastIndex, ticketLastIndex, aiVars>>

\* ConfigService.loadConfig()
LoadConfig == ConfigCall("loadConfig")

\* ConfigService.getConfig()
GetConfig == ConfigCall("getConfig")

\* ConfigService.clearCache()
ClearConfigCache ==
  /\ pc = "idle"
  /\ cachedConfig' = None
  /\ ret' = Some([op |-> "clearCache"])
  /\ UNCHANGED <<gitVars, historyVars, clock, lastIndex, ticketLastIndex, aiVars>>

\* Between calls a configuration file is rewritten.
WriteConfigFile ==
  /\ pc = "idle"
  /\ \E path \in DOMAIN configFile.files :
       \E content \in FileContents \ {configFile.files[path]} :
          configFile' = [configFile EXCEPT !.files[path] = content]
  /\ ret' = None
  /\ UNCHANGED <<hooks, gitStaged, gitDiff, gitStats, gitBranch, gitLog, cachedConfig, historyVars,
                 clock, lastIndex, ticketLastIndex, aiVars>>

NextConfig == LoadConfig \/ GetConfig \/ ClearConfigCache \/ WriteConfigFile

SpecConfig == InitConfig /\ [][NextConfig]_vars

ReturnedConfig == Returned("loadConfig") \/ Returned("getConfig")

\* The directories loadConfig looks in.
SearchedDirs ==
  (IF Has(configFile.gitRoot) THEN {Val(configFile.gitRoot)} ELSE {}) \cup {configFile.cwd}

NoFileFound ==
  \A dir \in SearchedDirs :
    \A j \in DOMAIN CONFIG_FILES : pathJoin(dir, CONFIG_FILES[j]) \notin DOMAIN configFile.files

\* C24: loadConfig never throws; when no configuration file is found, when the git root
\* cannot be determined, and when the file found cannot be read or parsed, it returns
\* the complete default configuration; when the file parses, every top-level field the
\* file does not give keeps its default and every field it gives overrides the default.
C24_NeverThrows ==
  (ReturnedConfig /\ Val(ret).searched) =>
    /\ ~Val(ret).threw
    /\ DOMAIN Val(ret).value = ConfigFields
    /\ NoFileFound => Val(ret).value = DEFAULT_CONFIG /\ Val(ret).read = None
    /\ ~NoFileFound =>
         /\ Has(Val(ret).read)
         /\ LET content == configFile.files[Val(Val(ret).read)]
            IN IF ~Has(content) \/ JSONparse(Val(content)).threw
               THEN Val(ret).value = DEFAULT_CONFIG
               ELSE \A key \in ConfigFields :
                      Val(ret).value[key]
                        = IF key \in DOMAIN JSONparse(Val(content)).value
                          THEN JSONparse(Val(content)).value[key] ELSE DEFAULT_CONFIG[key]

\* Outside a git repository, with a file in the current directory that is no JSON: the
\* defaults came back.
C24_InvalidJSONOutsideRepository ==
  /\ Returned("loadConfig") /\ Val(ret).searched
  /\ configFile.gitRoot = None
  /\ Val(ret).read = Some("/project/src/.commitgenierc.json")
  /\ configFile.files["/project/src/.commitgenierc.json"] = Some("{ invalid json }")
  /\ ~Val(ret).threw
  /\ Val(ret).value = DEFAULT_CONFIG

\* A file that gives defaultType only: maxMessageLength keeps its default.
C24_MergedWithDefaults ==
  /\ Returned("loadConfig") /\ Val(ret).searched
  /\ Val(ret).value.defaultType = "chore"
  /\ Val(ret).value.maxMessageLength = 72

\* No configuration file exists in the git root or in the current directory.
NoConfigFile == DOMAIN configFile.files = {}

ConfigStep == Has(ret') /\ Val(ret').op \in {"loadConfig", "getConfig"}

\* C26: once a configuration is cached, every loadConfig and getConfig returns it
\* without looking up the git root or reading a file and leaves it cached, until
\* clearCache is called; a call with nothing cached (the first one, the first after
\* clearCache) searches again and caches what it returns, the defaults chosen when no
\* file was found or the file could not be parsed included; only clearCache empties the
\* cache.
C26_ConfigCache ==
  [][/\ (ConfigStep /\ Has(cachedConfig)) =>
          /\ Val(ret').value = Val(cachedConfig)
          /\ ~Val(ret').searched
          /\ Val(ret').read = None
          /\ cachedConfig' = cachedConfig
     /\ (ConfigStep /\ ~Has(cachedConfig)) =>
          /\ Val(ret').searched
          /\ Val(ret').value = loadConfigFromDisk(None, configFile).value
          /\ cachedConfig' = Some(Val(ret').value)
     /\ (Has(ret') /\ Val(ret').op = "clearCache") => cachedConfig' = None
     /\ (Has(cachedConfig) /\ ~Has(cachedConfig')) => (Has(ret') /\ Val(ret').op = "clearCache")]_vars

\* The file was rewritten after the defaults were cached for a file that is no JSON:
\* getConfig still returns the cached defaults, unread.
C26_StaleDefaultsServed ==
  /\ Returned("getConfig")
  /\ ~Val(ret).searched
  /\ Val(ret).value = DEFAULT_CONFIG
  /\ cachedConfig = Some(DEFAULT_CONFIG)
  /\ loadConfigFromDisk(None, configFile).value # DEFAULT_CONFIG

\* After clearCache the next call searched and read again.
C26_ReadAgainAfterClear ==
  /\ Returned("loadConfig")
  /\ Val(ret).searched /\ Has(Val(ret).read)
  /\ Val(ret).value # DEFAULT_CONFIG

(***************************************************************************)
(* The length of the subject line                                          *)
(***************************************************************************)

LongPath == "src/authenticationTokenRefreshSchedulerImplementationFactoryRegistry.ts"

LengthPaths == {j \in DOMAIN Paths : Paths[j] \in {LongPath, "src/old.ts"}}

LengthConfigFiles ==
  { <<>>,
    [includeEmoji |-> Some(FALSE)],
    [includeEmoji |-> Some(FALSE), maxMessageLength |-> 50] }

InitLength ==
  /\ gitStaged \in StagedLists(LengthPaths, MaxComposeFiles)
  /\ gitDiff \in {"+  return a", "-export function oldApi() {}"}
  /\ gitStats \in {SmallStats, LargeStats}
  /\ gitBranch = "main"
  /\ gitLog = <<>>
  /\ configFile \in LengthConfigFiles
  /\ Fresh

SpecLength == InitLength /\ [][NextScopes]_vars

\* The emoji is written as a shortcode here; in the program it is one character or two.
EmojiLength == 1

\* The number of characters of the first line of a message.
SubjectLength(msg) ==
  LET subject == FirstLine(msg.full)
      code == COMMIT_EMOJIS[msg.type]
  IN IF startsWith(subject, code) THEN Len(subject) - Len(code) + EmojiLength ELSE Len(subject)

\* C27: the subject of every message generateCommitMessage and
\* generateMultipleSuggestions produce has at most config.maxMessageLength characters
\* (72 by default).
C27_SubjectWithinLimit ==
  \A r \in Rendered : SubjectLength(r.message) <= effectiveConfig.maxMessageLength

\* The default limit of 72, no emoji, one added file with a long name: the subject is
\* longer than 72 characters.
C27_LongFileName ==
  /\ Returned("generateCommitMessage")
  /\ effectiveConfig.maxMessageLength = 72
  /\ effectiveConfig.includeEmoji = Some(FALSE)
  /\ Len(gitStaged) = 1 /\ gitStaged[1].path = LongPath
  /\ endsWith(FirstLine(Val(ret).value.full), getFileName(LongPath))
  /\ Len(FirstLine(Val(ret).value.full)) > 72

\* A short file name stays within the default limit.
C27_ShortFileName ==
  /\ Returned("generateCommitMessage")
  /\ effectiveConfig.maxMessageLength = 72
  /\ Len(gitStaged) = 1 /\ gitStaged[1].path = "src/old.ts"
  /\ SubjectLength(Val(ret).value) <= 72

(***************************************************************************)
(* commands/generate.ts: generateCommand                                   *)
(***************************************************************************)

\* The options commander hands to generateCommand.
GenerateOptions ==
  [commit : BOOLEAN, interactive : BOOLEAN, messageOnly : BOOLEAN, single : BOOLEAN,
   dryRun : BOOLEAN]

\* What the user types at a prompt; prompt() resolves the trimmed line.
Choices == {"1", "2", "9", "2nd", "c", "Commit", "e", "n", "", "x"}
EditedMessages == {"", "fix: manual"}

RECURSIVE leadingDigits(_)
leadingDigits(s) ==
  IF Len(s) = 0 \/ CharAt(s, 1) \notin DigitChars THEN ""
  ELSE CharAt(s, 1) \o leadingDigits(SubSeq(s, 2, Len(s)))

RECURSIVE digitsValue(_)
digitsValue(d) ==
  IF Len(d) = 0 THEN 0
  ELSE digitsValue(SubSeq(d, 1, Len(d) - 1)) * 10 + (indexOf(Digits, CharAt(d, Len(d))) - 1)

\* parseInt(choice, 10) on an unsigned line: the leading digits, NaN (None) without any.
parseInt(s) ==
  LET d == leadingDigits(trimStart(s))
  IN IF d = "" THEN None ELSE Some(digitsValue(d))

\* A run of the command: its inputs, the checks it passed, the suggestions it computed,
\* the answers it was given, the messages it handed to GitService.commit, the prompt it
\* waits at and its exit status (None while it runs).
NewRun(options, isRepo) ==
  [op |-> "generateCommand", options |-> options, isRepo |-> isRepo,
   hasStagedChanges |-> None, suggestions |-> <<>>, multiple |-> FALSE, choice |-> None,
   edited |-> None, commits |-> <<>>, prompt |-> "", exit |-> None]

\* process.exit(1), and the return that ends the process with status 0.
exits(run, status) == [run EXCEPT !.exit = Some(status), !.prompt = ""]

\* commitWithMessage: GitService.commit(message); when it throws, process.exit(1).
commitWithMessage(run, message, ok) ==
  exits([run EXCEPT !.commits = Append(@, message)], IF ok THEN 0 ELSE 1)

\* The 'e' branch of both handlers after its prompt: commit a non-empty message.
commitCustomMessage(run, customMessage, ok) ==
  IF customMessage # "" THEN commitWithMessage(run, customMessage, ok) ELSE exits(run, 0)

\* handleSingleChoice committing on any answer it does not know.
handleSingleChoice_commitUnknown(run, choice, message, ok) ==
  IF toLowerCase(choice) \in {"c", "commit"} THEN commitWithMessage(run, message, ok)
  ELSE IF toLowerCase(choice) \in {"e", "edit"} THEN [run EXCEPT !.prompt = "edit"]
  ELSE IF toLowerCase(choice) \in {"n", "no", "cancel", ""} THEN exits(run, 0)
  ELSE commitWithMessage(run, message, ok)

\* handleSingleChoice up to its second prompt.
handleSingleChoice(run, choice, message, ok) ==
  IF toLowerCase(choice) \in {"c", "commit"} THEN commitWithMessage(run, message, ok)
  ELSE IF toLowerCase(choice) \in {"e", "edit"} THEN [run EXCEPT !.prompt = "edit"]
  ELSE exits(run, 0)

\* handleMultipleChoice up to its second prompt.
handleMultipleChoice(run, choice, suggestions, ok) ==
  LET num == parseInt(choice)
  IN IF Has(num) /\ Val(num) >= 1 /\ Val(num) <= Len(suggestions)
       THEN commitWithMessage(run, suggestions[Val(num)].message.full, ok)
     ELSE IF toLowerCase(choice) \in {"e", "edit"} THEN [run EXCEPT !.prompt = "edit"]
     ELSE exits(run, 0)

\* The dry-run mode of the command: the preview is printed and the command returns
\* before it commits or prompts.
dryRunReturns(options) == options.dryRun

\* generateCommand from the suggestions to its first prompt.
afterSuggestions(run, ok) ==
  LET defaultMessage == run.suggestions[1].message
  IN IF run.options.messageOnly THEN exits(run, 0)
     ELSE IF dryRunReturns(run.options) THEN exits(run, 0)
     ELSE IF run.options.commit THEN commitWithMessage(run, defaultMessage.full, ok)
     ELSE IF run.options.interactive # FALSE THEN [run EXCEPT !.prompt = "choice"]
     ELSE exits(run, 0)

\* git commit: the index is emptied and the log gets the new subject.
Committed(run) ==
  IF run.commits # <<>> /\ run.exit = Some(0)
    THEN /\ gitStaged' = <<>>
         /\ gitDiff' = ""
         /\ gitStats' = [filesChanged |-> 0, insertions |-> 0, deletions |-> 0]
         /\ gitLog' = <<FirstLine(run.commits[Len(run.commits)])>> \o gitLog
    ELSE UNCHANGED <<gitStaged, gitDiff, gitStats, gitLog>>

\* The run waits at a prompt, or has ended.
Continue(run) ==
  /\ Committed(run)
  /\ IF run.exit = None
       THEN pc' = run.prompt /\ pending' = Some(run) /\ ret' = None
       ELSE pc' = "idle" /\ pending' = None /\ ret' = Some(run)

\* generateCommand(options) up to its first prompt.
GenerateCommand ==
  /\ pc = "idle"
  /\ \E isRepo \in BOOLEAN :
       IF ~isRepo
         THEN /\ \E options \in GenerateOptions :
                   Continue(exits(NewRun(options, isRepo), 1))
              /\ UNCHANGED <<cachedConfig, historyVars, lastIndex, ticketLastIndex>>
       ELSE IF gitStaged = <<>>
         THEN /\ \E options \in GenerateOptions :
                   Continue(exits([NewRun(options, isRepo) EXCEPT
                                     !.hasStagedChanges = Some(FALSE)], 1))
              /\ UNCHANGED <<cachedConfig, historyVars, lastIndex, ticketLastIndex>>
       ELSE \E config \in {effectiveConfig} :
              \E r \in {generateMultipleSuggestions(Git, config, Program)} :
                 /\ Store(config, r.st)
                 /\ \E options \in GenerateOptions, ok \in BOOLEAN :
                      Continue(afterSuggestions(
                        [NewRun(options, isRepo) EXCEPT
                           !.hasStagedChanges = Some(TRUE),
                           !.suggestions = r.list,
                           !.multiple = Len(r.list) > 1 /\ ~options.single], ok))
  /\ UNCHANGED <<hooks, gitBranch, configFile, clock, aiAnswer, aiCalls>>

\* The user answers the first prompt.
Choose ==
  /\ pc = "choice"
  /\ \E choice \in Choices, ok \in BOOLEAN :
       LET run == [Val(pending) EXCEPT !.choice = Some(choice)]
       IN Continue(IF run.multiple
                     THEN handleMultipleChoice(run, choice, run.suggestions, ok)
                     ELSE handleSingleChoice(run, choice, run.suggestions[1].message.full, ok))
  /\ UNCHANGED <<hooks, gitBranch, configFile, cachedConfig, historyVars, clock, lastIndex,
                 ticketLastIndex, aiAnswer, aiCalls>>

\* The user answers 'Enter your commit message: '.
EnterMessage ==
  /\ pc = "edit"
  /\ \E customMessage \in EditedMessages, ok \in BOOLEAN :
       Continue(commitCustomMessage([Val(pending) EXCEPT !.edited = Some(customMessage)],
                                    customMessage, ok))
  /\ UNCHANGED <<hooks, gitBranch, configFile, cachedConfig, historyVars, clock, lastIndex,
                 ticketLastIndex, aiAnswer, aiCalls>>

InitCommand ==
  /\ gitStaged \in ComposeStaged
  /\ gitDiff \in {"+  return a", "-export function oldApi() {}"}
  /\ gitStats = SmallStats
  /\ gitBranch \in {"main", "feature/ABC-123-fix-#45"}
  /\ gitLog = <<>>
  /\ configFile = <<>>
  /\ Fresh

NextCommand == GenerateCommand \/ Choose \/ EnterMessage

SpecCommand == InitCommand /\ [][NextCommand]_vars

\* The runs in sight: the one waiting at a prompt, or the one that just ended.
Runs ==
  (IF pc \in {"choice", "edit"} THEN {Val(pending)} ELSE {})
  \cup (IF Returned("generateCommand") THEN {Val(ret)} ELSE {})

\* The user picked a suggestion at the first prompt.
SelectedSuggestion(run) ==
  /\ Has(run.choice)
  /\ IF run.multiple
       THEN \E k \in 1..Len(run.suggestions) :
              parseInt(Val(run.choice)) = Some(k)
       ELSE toLowerCase(Val(run.choice)) \in {"c", "commit"}

\* The user asked to edit and entered a non-empty message.
EnteredMessage(run) ==
  /\ Has(run.choice)
  /\ toLowerCase(Val(run.choice)) \in {"e", "edit"}
  /\ Has(run.edited)
  /\ Val(run.edited) # ""

C28_DryRunWithCommit ==
  \E run \in Runs :
    /\ run.options.dryRun /\ run.options.commit /\ ~run.options.messageOnly
    /\ run.hasStagedChanges = Some(TRUE)
    /\ run.exit = Some(0)
    /\ run.commits = <<>>

\* An answer the single-suggestion prompt does not know: nothing is committed.
C28_UnknownAnswer ==
  \E run \in Runs :
    /\ ~run.multiple
    /\ run.choice = Some("x")
    /\ run.exit = Some(0)
    /\ run.commits = <<>>

\* Outside a repository the run exits with status 1.
C28_OutsideRepository ==
  \E run \in Runs : ~run.isRepo /\ run.options.commit /\ run.exit = Some(1)

\* The edited message is committed and git commit fails: exit status 1.
C28_EditedCommitFails ==
  \E run \in Runs :
    /\ run.edited = Some("fix: manual")
    /\ run.commits = <<"fix: manual">>
    /\ run.exit = Some(1)

(***************************************************************************)
(* The number of breaking-change reasons                                   *)
(***************************************************************************)

ReasonConfigFiles ==
  BreakingConfigFiles
  \cup {[breakingChangeDetection |-> Some([enabled |-> Some(TRUE),
                                           keywords |-> Some(<<"removed">>),
                                           includeFooter |-> None])]}

InitReasons ==
  /\ gitStaged \in AnalyzeStaged
  /\ gitDiff \in ReasonDiffs
  /\ gitStats = SmallStats
  /\ gitBranch = "main"
  /\ gitLog = <<>>
  /\ configFile \in ReasonConfigFiles
  /\ Fresh

SpecReasons == InitReasons /\ [][NextAnalyze]_vars

\* The reasons of the call that returned, by the check that pushes them.
ReasonsReturned == Val(ret).value.breakingChangeReasons

KeywordSet ==
  LET keywords == keywordsOf(effectiveConfig.breakingChangeDetection)
  IN {keywords[j] : j \in DOMAIN keywords}

KeywordPart ==
  SelectSeq(ReasonsReturned, LAMBDA r : \E k \in KeywordSet : r = quoteKeywords(<<k>>)[1])

DeletedPart == SelectSeq(ReasonsReturned, LAMBDA r : startsWith(r, "Deleted source files: "))

StructuralPart == SelectSeq(ReasonsReturned, LAMBDA r : r \in StructuralReasons)

RenamedPart ==
  SelectSeq(ReasonsReturned, LAMBDA r : r = "Renamed source files (may break imports)")

\* C29 as stated: with detection enabled each of the four checks (keyword, deleted
\* source file, structural pattern, renamed source file) contributes at most one reason,
\* so there are at most four reasons.
C29_AtMostFourReasons ==
  (Returned("analyzeChanges") /\ detectionEnabled) =>
    /\ Len(KeywordPart) <= 1
    /\ Len(DeletedPart) <= 1
    /\ Len(StructuralPart) <= 1
    /\ Len(RenamedPart) <= 1
    /\ Len(ReasonsReturned) <= 4

\* C29, amended: with detection enabled the keyword check contributes at most one reason
\* for each distinct keyword of the list, and the deleted-file, structural and
\* renamed-file checks at most one reason each, so there are at most as many reasons as
\* distinct keywords plus three.
C29_OneReasonPerKeyword ==
  (Returned("analyzeChanges") /\ detectionEnabled) =>
    /\ \A k \in KeywordSet :
         Len(SelectSeq(ReasonsReturned, LAMBDA r : r = quoteKeywords(<<k>>)[1])) <= 1
    /\ Len(KeywordPart) <= Cardinality(KeywordSet)
    /\ Len(DeletedPart) <= 1
    /\ Len(StructuralPart) <= 1
    /\ Len(RenamedPart) <= 1
    /\ Len(ReasonsReturned) = Len(KeywordPart) + Len(DeletedPart) + Len(StructuralPart)
                              + Len(RenamedPart)
    /\ Len(ReasonsReturned) <= Cardinality(KeywordSet) + 3

\* The default keyword list on a diff that holds five of its keywords, removes an export
\* and a function, with a source file deleted and another renamed: eight reasons.
C29_EightReasons ==
  /\ Returned("analyzeChanges") /\ detectionEnabled
  /\ KeywordSet = {DEFAULT_BREAKING_KEYWORDS[j] : j \in DOMAIN DEFAULT_BREAKING_KEYWORDS}
  /\ Len(KeywordPart) = 5
  /\ Len(DeletedPart) = 1
  /\ StructuralPart = <<"Removed exported members">>
  /\ Len(RenamedPart) = 1
  /\ Len(ReasonsReturned) = 8

\* A one-keyword list: all four checks give their one reason.
C29_FourChecksOneEach ==
  /\ Returned("analyzeChanges") /\ detectionEnabled
  /\ Cardinality(KeywordSet) = 1
  /\ Len(KeywordPart) = 1 /\ Len(DeletedPart) = 1 /\ Len(StructuralPart) = 1
  /\ Len(RenamedPart) = 1

(***************************************************************************)
(* services/hookService.ts                                                 *)
(***************************************************************************)

HOOK_NAME == "prepare-commit-msg"

HOOK_SCRIPT ==
  "#!/bin/sh\n# CommitGenie prepare-commit-msg hook\n# This hook generates a commit message suggestion\n\nCOMMIT_MSG_FILE=$1\nCOMMIT_SOURCE=$2\n\n# Only run for regular commits (not merges, squashes, etc.)\nif [ -z \"$COMMIT_SOURCE\" ]; then\n  # Check if commit-genie is available\n  if command -v commit-genie &> /dev/null; then\n    # Generate message and write to file\n    MESSAGE=$(commit-genie --message-only 2>/dev/null)\n    if [ -n \"$MESSAGE\" ]; then\n      echo \"$MESSAGE\" > \"$COMMIT_MSG_FILE\"\n    fi\n  elif command -v npx &> /dev/null; then\n    # Fallback to npx if commit-genie is not globally installed\n    MESSAGE=$(npx --yes commit-genie --message-only 2>/dev/null)\n    if [ -n \"$MESSAGE\" ]; then\n      echo \"$MESSAGE\" > \"$COMMIT_MSG_FILE\"\n    fi\n  fi\nfi\n"

\* content.includes('CommitGenie')
hasMarker(content) == includes(content, "CommitGenie")

\* getHooksDir() and getHookPath(), given what GitService.getGitDir() returned.
getHooksDir(gitDir) == pathJoin(gitDir, "hooks")
getHookPath(gitDir) == pathJoin(getHooksDir(gitDir), HOOK_NAME)
backupPathOf(hookPath) == hookPath \o ".backup"

\* fs.existsSync, fs.writeFileSync / fs.copyFileSync, fs.unlinkSync on the files of d.
existsSync(d, path) == path \in d.dirs \/ path \in DOMAIN d.files

writeFileSync(d, path, content) ==
  [d EXCEPT !.files = [q \in DOMAIN d.files \cup {path} |->
                         IF q = path THEN content ELSE d.files[q]]]

unlinkSync(d, path) ==
  [d EXCEPT !.files = [q \in DOMAIN d.files \ {path} |-> d.files[q]]]

\* fs.renameSync(from, to): to gets the content of from, which is gone.
renameSync(d, from, to) == unlinkSync(writeFileSync(d, to, d.files[from]), from)

\* fs.mkdirSync(hooksDir, { recursive: true }) when the directory is missing.
ensureDir(d, dir) == IF existsSync(d, dir) THEN d ELSE [d EXCEPT !.dirs = @ \cup {dir}]

hookResult(d, success, message) == [disk |-> d, success |-> success, message |-> message]

\* install() writing its script over a hook it has backed up.
installOn_overwrite(d, hookPath) ==
  IF existsSync(d, hookPath)
    THEN IF hasMarker(d.files[hookPath])
           THEN hookResult(d, TRUE, "Hook is already installed.")
           ELSE hookResult(writeFileSync(writeFileSync(d, backupPathOf(hookPath), d.files[hookPath]),
                                         hookPath, HOOK_SCRIPT),
                           TRUE, "Hook installed successfully!")
    ELSE hookResult(writeFileSync(d, hookPath, HOOK_SCRIPT), TRUE, "Hook installed successfully!")

\* install() once the hooks directory exists.
installOn(d, hookPath) ==
  IF existsSync(d, hookPath)
    THEN IF hasMarker(d.files[hookPath])
           THEN hookResult(d, TRUE, "Hook is already installed.")
           ELSE hookResult(writeFileSync(d, backupPathOf(hookPath), d.files[hookPath]), FALSE,
                           "Existing hook found. Backed up to " \o backupPathOf(hookPath)
                             \o ". Please manually integrate or remove the existing hook.")
    ELSE hookResult(writeFileSync(d, hookPath, HOOK_SCRIPT), TRUE, "Hook installed successfully!")

\* HookService.install(); GitService.getGitDir() throws outside a repository.
install(d) ==
  IF ~Has(d.gitDir)
    THEN hookResult(d, FALSE, "Failed to install hook: Failed to get git directory")
    ELSE installOn(ensureDir(d, getHooksDir(Val(d.gitDir))), getHookPath(Val(d.gitDir)))

\* uninstall() once the hook path is known.
uninstallOn(d, hookPath) ==
  IF ~existsSync(d, hookPath) THEN hookResult(d, TRUE, "Hook is not installed.")
  ELSE IF ~hasMarker(d.files[hookPath])
    THEN hookResult(d, FALSE, "Hook exists but was not installed by CommitGenie. Not removing.")
  ELSE IF existsSync(unlinkSync(d, hookPath), backupPathOf(hookPath))
    THEN hookResult(renameSync(unlinkSync(d, hookPath), backupPathOf(hookPath), hookPath), TRUE,
                    "Hook uninstalled and previous hook restored.")
  ELSE hookResult(unlinkSync(d, hookPath), TRUE, "Hook uninstalled successfully!")

\* HookService.uninstall()
uninstall(d) ==
  IF ~Has(d.gitDir)
    THEN hookResult(d, FALSE, "Failed to uninstall hook: Failed to get git directory")
    ELSE uninstallOn(d, getHookPath(Val(d.gitDir)))

\* What a hook file or its backup can hold: the script of install(), hooks of other
\* tools, one of them naming the tool in lower case, and a hand-written hook that
\* names CommitGenie.
HookTexts ==
  {HOOK_SCRIPT, "#!/bin/sh\nnpx lint-staged\n", "#!/bin/sh\nexit 0\n",
   "#!/bin/sh\n# commitgenie wrapper\ncommit-genie -m\n",
   "#!/bin/sh\n# runs CommitGenie by hand\ncommit-genie -m > \"$1\"\n"}

\* What GitService.getGitDir() returns: the .git of a repository, or of a worktree.
GitDirs == {"/project/.git", "/project/.git/worktrees/feature"}

\* The .git directories: none (not a repository), one without a hooks directory, and
\* one whose hooks directory holds any of the hook and its backup.
HookDisks ==
  {[gitDir |-> None, dirs |-> {}, files |-> <<>>]}
  \cup {[gitDir |-> Some(g), dirs |-> {}, files |-> <<>>] : g \in GitDirs}
  \cup UNION {UNION {{[gitDir |-> Some(g), dirs |-> {getHooksDir(g)}, files |-> f] :
                        f \in [ps -> HookTexts]}
                     : ps \in SUBSET {getHookPath(g), backupPathOf(getHookPath(g))}}
              : g \in GitDirs}

InitHooks ==
  /\ gitStaged = <<>>
  /\ gitDiff = ""
  /\ gitStats = [filesChanged |-> 0, insertions |-> 0, deletions |-> 0]
  /\ gitBranch = "main"
  /\ gitLog = <<>>
  /\ configFile = <<>>
  /\ hooks \in HookDisks
  /\ cachedConfig = None
  /\ cachedAnalysis = None
  /\ cacheTimestamp = 0
  /\ clock = 0
  /\ lastIndex = ZeroIndex
  /\ ticketLastIndex = <<0, 0, 0>>
  /\ pc = "idle"
  /\ pending = None
  /\ aiAnswer = None
  /\ aiCalls = 0
  /\ ret = None

HookCall(op, r) ==
  /\ pc = "idle"
  /\ hooks' = r.disk
  /\ ret' = Some([op |-> op, value |-> [success |-> r.success, message |-> r.message]])
  /\ UNCHANGED <<gitStaged, gitDiff, gitStats, gitBranch, gitLog, configFile, cachedConfig,
                 historyVars, clock, lastIndex, ticketLastIndex, aiVars>>

\* HookService.install()
Install == HookCall("install", install(hooks))

\* HookService.uninstall()
Uninstall == HookCall("uninstall", uninstall(hooks))

NextHooks == Install \/ Uninstall

SpecHooks == InitHooks /\ [][NextHooks]_vars

\* The hook file and its backup in a .git directory.
HookPath == getHookPath(Val(hooks.gitDir))
BackupPath == backupPathOf(HookPath)

\* A hook file that install() did not write and that does not name CommitGenie.
ForeignHook(d) ==
  /\ Has(d.gitDir)
  /\ getHookPath(Val(d.gitDir)) \in DOMAIN d.files
  /\ ~includes(d.files[getHookPath(Val(d.gitDir))], "CommitGenie")

\* A hook file that holds the marker.
InstalledHook(d) ==
  /\ Has(d.gitDir)
  /\ getHookPath(Val(d.gitDir)) \in DOMAIN d.files
  /\ includes(d.files[getHookPath(Val(d.gitDir))], "CommitGenie")

Called(op) == Has(ret') /\ Val(ret').op = op

\* C30: every install and uninstall leaves a hook without the marker in place with its
\* content and returns success = false, install copying it to the backup; install on a
\* hook with the marker changes nothing and returns success = true; uninstall of a hook
\* with the marker removes it, and puts the backup in its place when there is one.
C30_ForeignHookKept ==
  [][ /\ ForeignHook(hooks) =>
           /\ HookPath \in DOMAIN hooks'.files
           /\ hooks'.files[HookPath] = hooks.files[HookPath]
           /\ Val(ret').value.success = FALSE
           /\ Called("install") =>
                /\ BackupPath \in DOMAIN hooks'.files
                /\ hooks'.files[BackupPath] = hooks.files[HookPath]
           /\ Called("uninstall") => hooks' = hooks
      /\ (InstalledHook(hooks) /\ Called("install")) =>
           hooks' = hooks /\ Val(ret').value.success = TRUE
      /\ (InstalledHook(hooks) /\ Called("uninstall")) =>
           IF BackupPath \in DOMAIN hooks.files
             THEN /\ HookPath \in DOMAIN hooks'.files
                  /\ hooks'.files[HookPath] = hooks.files[BackupPath]
                  /\ BackupPath \notin DOMAIN hooks'.files
             ELSE HookPath \notin DOMAIN hooks'.files
    ]_vars

\* install() met the hook of another tool: it is still there, and so is its copy.
C30_BackedUpNotReplaced ==
  /\ Returned("install")
  /\ Val(ret).value.success = FALSE
  /\ ForeignHook(hooks)
  /\ hooks.files[HookPath] = "#!/bin/sh\nnpx lint-staged\n"
  /\ hooks.files[BackupPath] = hooks.files[HookPath]

\* uninstall() met the hook of another tool and left it.
C30_NotRemoved ==
  /\ Returned("uninstall")
  /\ Val(ret).value.success = FALSE
  /\ ForeignHook(hooks)

\* uninstall() removed the installed hook and put the backup in its place.
C30_BackupRestored ==
  /\ Returned("uninstall")
  /\ Val(ret).value.message = "Hook uninstalled and previous hook restored."
  /\ ForeignHook(hooks)
  /\ BackupPath \notin DOMAIN hooks.files

\* install() found its hook in place.
C30_AlreadyInstalled ==
  /\ Returned("install")
  /\ Val(ret).value.message = "Hook is already installed."
  /\ hooks.files[HookPath] = HOOK_SCRIPT

=============================================================================
